---- MODULE Spec2Model ----
(***************************************************************************)
(* Authenticated broadcast: HORST few-time signatures over a Merkle tree,  *)
(* the layered key manager of the block signer, the trust-on-first-use     *)
(* block verifier with its public-key cache, and the datagram              *)
(* fragmentation / reassembly codec.                                       *)
(*                                                                         *)
(* Byte strings are sequences of integers.  An N-byte block (a secret, a   *)
(* tree node, a public key) is a sequence as well.  The tree hash is the   *)
(* ideal collision-free hash: the digest of a string is that string put    *)
(* between the two marks HOpen and HClose, so two digests are equal        *)
(* exactly when their inputs are.  The output of the CSPRNG at stream      *)
(* position p is the token p + 1: two draws give two different values.     *)
(***************************************************************************)
EXTENDS Integers, Sequences, FiniteSets, TLC

\* ------------------------------------------------------------------------
\* Bounds of the model
\* ------------------------------------------------------------------------
\* Depth of the Merkle tree of a keypair (const generic TAU)
TAU == 1
\* Number of secret segments revealed by a signature (const generic K)
K == 2
\* Number of key layers of the signer (BlockSignerParams.layers)
NumLayers == 2
\* Number of sign calls explored with every sequence of layer choices
MaxSigns == 22
\* Number of sign calls explored with the choices staying on one layer
MaxForced == 42
\* Number of blocks the receiver may miss or an attacker may alter
MaxBlocks == 2
\* Largest value the millisecond clock reaches
MaxClock == 1
\* Resolution of the uniform sample rng.gen::<f64>(): u / RngGranularity
RngGranularity == 4
\* Largest payload byte
MaxByte == 1
\* Longest message signed when the signature scheme is exercised on its own
MaxMsgLen == 3
\* Number of keypairs drawn when the signature scheme is exercised on its own
MaxKeys == 3
\* Longest block handed to the datagram codec
MaxBlockLen == 5
\* config::MAX_PKS handed to prune_pks
MAX_PKS == 3
\* config::DATAGRAM_SIZE: the 16 bytes of the header and the payload
DATAGRAM_SIZE == 18
\* Sign calls of the run that left an identity file behind
MaxEarlier == 2
\* Sign calls two signers make side by side
MaxTwin == 21
\* Sign calls they make when one of them started from an identity file
MaxLoaded == 2
\* Sign calls of the restarted sender: any layers for the first MaxIdFree,
\* one layer up to MaxIdSigns
MaxIdFree == 3
MaxIdSigns == 21
\* Stops between two sign calls, and crashes inside one
MaxStops == 1
MaxCrashes == 1
\* Receivers that subscribe, how long a heartbeat keeps them subscribed, and
\* the time the sender is followed for
MaxSubs == 2
SUBSCRIBER_LIFETIME == 1
MaxCastClock == 3
\* Longest deadline an assembly record is measured against
MaxDeadline == 2
\* Datagrams that reach the sockets of the polling loops
MaxArrivals == 3
\* Largest K, TAU and hash size in bytes of the parameter sets validated
MaxParamK == 3
MaxParamTau == 4
MaxParamBytes == 2
\* Most leaves handed to the Merkle tree on its own
MaxLeaves == 8
\* Largest length field a payload ends with
MaxSplitLen == 17

\* ------------------------------------------------------------------------
\* Program constants
\* ------------------------------------------------------------------------
\* KeyCont.lifetime set by KeyLayers::insert
LIFETIME == 20
\* Marks delimiting a digest
HOpen == 0 - 1
HClose == 0 - 2

\* ------------------------------------------------------------------------
\* Arithmetic helpers
\* ------------------------------------------------------------------------
RECURSIVE Log2Floor(_)
Log2Floor(n) == IF n <= 1 THEN 0 ELSE 1 + Log2Floor(n \div 2)

RECURSIVE to_le_bytes(_, _)
to_le_bytes(n, width) ==
    IF width = 0 THEN <<>> ELSE <<n % 256>> \o to_le_bytes(n \div 256, width - 1)

RECURSIVE from_le_bytes(_)
from_le_bytes(bytes) ==
    IF bytes = <<>> THEN 0 ELSE Head(bytes) + 256 * from_le_bytes(Tail(bytes))

RECURSIVE SumSeq(_)
SumSeq(s) == IF s = <<>> THEN 0 ELSE Head(s) + SumSeq(Tail(s))

RECURSIVE Concat(_)
Concat(ss) == IF ss = <<>> THEN <<>> ELSE Head(ss) \o Concat(Tail(ss))

Min(a, b) == IF a <= b THEN a ELSE b

\* ------------------------------------------------------------------------
\* Hash functions (sha3 crate)
\* ------------------------------------------------------------------------
\* TreeHashFn::digest: ideal hash, injective on byte strings
TreeHashFn_digest(x) == <<HOpen>> \o x \o <<HClose>>

\* MsgHashFn::digest truncated to MSG_HASH_SIZE = 1 byte: the checksum
\* 89 + sum (msg[i] + 11) * (2 i + 1) modulo 256
RECURSIVE MsgHashSum(_, _, _)
MsgHashSum(msg, lo, hi) ==
    IF lo > hi THEN 0
    ELSE IF lo = hi THEN ((msg[lo] + 11) * (2 * lo + 1)) % 256
    ELSE (MsgHashSum(msg, lo, (lo + hi) \div 2)
          + MsgHashSum(msg, ((lo + hi) \div 2) + 1, hi)) % 256

MsgHashFn_digest(msg) == <<(89 + MsgHashSum(msg, 1, Len(msg))) % 256>>

\* ------------------------------------------------------------------------
\* utils::get_segment_indices (bitreader, MSB first)
\* ------------------------------------------------------------------------
BitAt(bytes, p) == (bytes[(p \div 8) + 1] \div (2 ^ (7 - (p % 8)))) % 2

RECURSIVE read_u64(_, _, _)
read_u64(bytes, from, nbits) ==
    IF nbits = 0 THEN 0
    ELSE 2 * read_u64(bytes, from, nbits - 1) + BitAt(bytes, from + nbits - 1)

get_segment_indices(k, tau, msg_hash) ==
    [i \in 1..k |-> read_u64(msg_hash, (i - 1) * tau, tau)]

\* ------------------------------------------------------------------------
\* Merkle tree
\* ------------------------------------------------------------------------
RECURSIVE MerkleNode(_, _, _, _)
MerkleNode(leaves, h, l, i) ==
    IF l = h - 1
    THEN TreeHashFn_digest(leaves[i + 1])
    ELSE TreeHashFn_digest(MerkleNode(leaves, h, l + 1, 2 * i)
                           \o MerkleNode(leaves, h, l + 1, 2 * i + 1))

MerkleTree_new(leaves) ==
    LET t == Len(leaves)
        h == Log2Floor(t) + 1
        size == (2 ^ h) - 1
    IN  [data |-> [j \in 1..size |->
                     IF t = 0 THEN <<0>>
                     ELSE MerkleNode(leaves, h, Log2Floor(j), j - 2 ^ Log2Floor(j))],
         t |-> t, h |-> h, size |-> size]

MerkleTree_get(tree, layer, idx) == tree.data[((2 ^ layer) - 1) + idx + 1]

MerkleTree_root(tree) == MerkleTree_get(tree, 0, 0)

RECURSIVE AuthPathFrom(_, _, _)
AuthPathFrom(tree, h, i) ==
    IF h < 1 THEN <<>>
    ELSE LET sib == IF i % 2 = 0 THEN i + 1 ELSE i - 1
         IN  <<MerkleTree_get(tree, h, sib)>> \o AuthPathFrom(tree, h - 1, sib \div 2)

\* get_auth_path that starts from the sibling of the leaf
get_auth_path_from_sibling(tree, leaf_idx) ==
    AuthPathFrom(tree, tree.h - 1, IF leaf_idx % 2 = 0 THEN leaf_idx + 1
                                   ELSE leaf_idx - 1)

MerkleTree_get_auth_path(tree, leaf_idx) == AuthPathFrom(tree, tree.h - 1, leaf_idx)

\* ------------------------------------------------------------------------
\* HORST signature scheme
\* ------------------------------------------------------------------------
\* Output of the CSPRNG at stream position pos
RngOut(pos) == pos + 1

\* HorstSecretKey::new: T = 2^TAU secrets drawn from the rng, and their tree
HorstSecretKey_new(rng) ==
    LET data == [i \in 1..(2 ^ TAU) |-> <<RngOut(rng + i - 1)>>]
    IN  [data |-> data, tree |-> MerkleTree_new(data)]

\* gen_key_pair: the keypair and the state of the rng after the draws
gen_key_pair(rng) ==
    LET sk == HorstSecretKey_new(rng)
    IN  [secret |-> sk, public |-> MerkleTree_root(sk.tree)]

RngAfterKey(rng) == rng + (2 ^ TAU)

\* The signature elements for the segment indices of the message hash
SignatureAt(indices, secret_key) ==
    [i \in 1..K |->
       <<secret_key.data[indices[i] + 1]>>
       \o MerkleTree_get_auth_path(secret_key.tree, indices[i])]

\* HorstSigScheme::sign
HorstSign(msg, secret_key) ==
    SignatureAt(get_segment_indices(K, TAU, MsgHashFn_digest(msg)), secret_key)

\* The root recomputed with the sibling put on the wrong side
RECURSIVE SegmentRoot_sibling_swapped(_, _, _, _)
SegmentRoot_sibling_swapped(segment, j, idx, parent_hash) ==
    IF j > Len(segment) THEN parent_hash
    ELSE IF j = 1
         THEN SegmentRoot_sibling_swapped(segment, 2, idx, TreeHashFn_digest(segment[1]))
         ELSE SegmentRoot_sibling_swapped(segment, j + 1, idx \div 2,
                          IF idx % 2 = 0
                          THEN TreeHashFn_digest(segment[j] \o parent_hash)
                          ELSE TreeHashFn_digest(parent_hash \o segment[j]))

\* The root recomputed from one signature element
RECURSIVE SegmentRoot(_, _, _, _)
SegmentRoot(segment, j, idx, parent_hash) ==
    IF j > Len(segment) THEN parent_hash
    ELSE IF j = 1
         THEN SegmentRoot(segment, 2, idx, TreeHashFn_digest(segment[1]))
         ELSE SegmentRoot(segment, j + 1, idx \div 2,
                          IF idx % 2 = 1
                          THEN TreeHashFn_digest(segment[j] \o parent_hash)
                          ELSE TreeHashFn_digest(parent_hash \o segment[j]))

\* The loop of verify over the elements the signature holds; it returns true
\* only when it has gone through all of them
VerifyAt(indices, signature, pk) ==
    \A i \in 1..Len(signature) :
       /\ i <= Len(indices)
       /\ SegmentRoot(signature[i], 1, indices[i], TreeHashFn_digest(<<>>)) = pk

\* The loop reads indices[i] past the K indices there are: the elements
\* before it gave the root pk and the signature holds one more
VerifyPanicsAt(indices, signature, pk) ==
    /\ Len(signature) > Len(indices)
    /\ \A i \in 1..Len(indices) :
          SegmentRoot(signature[i], 1, indices[i], TreeHashFn_digest(<<>>)) = pk

\* HorstSigScheme::verify
HorstVerify(msg, signature, pk) ==
    VerifyAt(get_segment_indices(K, TAU, MsgHashFn_digest(msg)), signature, pk)

\* ------------------------------------------------------------------------
\* State
\* ------------------------------------------------------------------------
VARIABLES
    signer,     \* the BlockSigner of the sender: [rng, layers, pks, distr]
    verifier,   \* the BlockSigner of the receiver (only pks is used)
    s_file,     \* identity file of the sender
    r_file,     \* identity file of the receiver
    net,        \* the signed block handed to the transport: <<>> or <<b>>
    clock,      \* utils::unix_ts(), milliseconds
    ret,        \* what the last verify call returned
    gh,         \* history: sign calls made, panics, delivery since bootstrap
    ut,         \* signature scheme exercised on its own
    fr,         \* fragmentation and reassembly exercised on their own
    id,         \* the sender process across stops, crashes and restarts
    tw,         \* two signers built with the same seed, side by side
    bc,         \* subscribers of the sender and what a broadcast sent them
    rn          \* the running flag and the loops that poll it

vars == <<signer, verifier, s_file, r_file, net, clock, ret, gh, ut, fr, id, tw, bc, rn>>

\* ------------------------------------------------------------------------
\* Key layers of the signer
\* ------------------------------------------------------------------------
KeyLayers_new(depth) ==
    [data |-> [l \in 1..depth |-> <<>>],
     first_sign |-> TRUE, until_top |-> 0, next_seq |-> 0]

\* insert that puts the new key in front of the keys of its layer
KeyLayers_insert_in_front(layers, level, keypair) ==
    LET key_cont == [key |-> keypair, last_cerified |-> 0,
                     signs |-> 0, lifetime |-> LIFETIME]
    IN  [layers EXCEPT !.data[level + 1] = <<key_cont>> \o @]

KeyLayers_insert(layers, level, keypair) ==
    LET key_cont == [key |-> keypair, last_cerified |-> 0,
                     signs |-> 0, lifetime |-> LIFETIME]
    IN  [layers EXCEPT !.data[level + 1] = Append(@, key_cont)]

\* usize subtraction: a wrapped difference is a huge positive number
usize_sub(a, b) == IF a >= b THEN a - b ELSE 2147483647

\* poll with a death test that an unsigned difference never passes
KeyLayers_poll_never_dies(layers, layer, now) ==
    LET signing_key == [layers.data[layer + 1][1] EXCEPT
                           !.signs = @ + 1, !.last_cerified = now]
        updated == [layers.data[layer + 1] EXCEPT ![1] = signing_key]
    IN  [layers |-> [layers EXCEPT !.data[layer + 1] = updated,
                                   !.first_sign = FALSE],
         key |-> signing_key,
         died |-> FALSE]

\* poll that leaves the first_sign flag as it found it
KeyLayers_poll_keeps_first_sign(layers, layer, now) ==
    LET signing_key == [layers.data[layer + 1][1] EXCEPT
                           !.signs = @ + 1, !.last_cerified = now]
        died == usize_sub(signing_key.lifetime, signing_key.signs) <= 0
        updated == [layers.data[layer + 1] EXCEPT ![1] = signing_key]
    IN  [layers |-> [layers EXCEPT
                        !.data[layer + 1] = IF died THEN Tail(updated) ELSE updated],
         key |-> signing_key,
         died |-> died]

\* KeyLayers::poll: the updated layers, the polled key and the died flag
KeyLayers_poll(layers, layer, now) ==
    LET signing_key == [layers.data[layer + 1][1] EXCEPT
                           !.signs = @ + 1, !.last_cerified = now]
        died == usize_sub(signing_key.lifetime, signing_key.signs) <= 0
        updated == [layers.data[layer + 1] EXCEPT ![1] = signing_key]
    IN  [layers |-> [layers EXCEPT
                        !.data[layer + 1] = IF died THEN Tail(updated) ELSE updated,
                        !.first_sign = FALSE],
         key |-> signing_key,
         died |-> died]

\* DiscreteDistribution::sample with rng.gen::<f64>() = u / RngGranularity
RECURSIVE SampleFrom(_, _, _, _)
SampleFrom(weights, value, cumulative_weight, u) ==
    LET cw == cumulative_weight + weights[value + 1]
    IN  IF cw * RngGranularity >= SumSeq(weights) * u
        THEN value
        ELSE SampleFrom(weights, value + 1, cw, u)

DiscreteDistribution_sample(distr, u) == SampleFrom(distr.weights, 0, 0, u)

\* The public keys of all layers, in layer order, tagged with their layer
AllPublicKeys(layers) ==
    Concat([l \in 1..Len(layers.data) |->
              [i \in 1..Len(layers.data[l]) |->
                 [key |-> layers.data[l][i].key.public, layer |-> l - 1]]])

\* next_key that forgets to replace a key that died
next_key_no_replacement(self, u, now) ==
    LET pks == AllPublicKeys(self.layers)
        sign_layer == IF self.layers.first_sign THEN 0
                      ELSE DiscreteDistribution_sample(self.distr, u)
        rng1 == IF self.layers.first_sign THEN self.rng ELSE self.rng + 1
        polled == KeyLayers_poll(self.layers, sign_layer, now)
    IN  [self |-> [self EXCEPT !.rng = rng1, !.layers = polled.layers],
         secret |-> polled.key.key.secret,
         public |-> polled.key.key.public,
         uses |-> polled.key.signs,
         pks |-> pks,
         sign_layer |-> sign_layer]

\* next_key that collects the public keys after the poll and the replacement
next_key_pks_after(self, u, now) ==
    LET sign_layer == IF self.layers.first_sign THEN 0
                      ELSE DiscreteDistribution_sample(self.distr, u)
        rng1 == IF self.layers.first_sign THEN self.rng ELSE self.rng + 1
        polled == KeyLayers_poll(self.layers, sign_layer, now)
        layers2 == IF polled.died
                   THEN KeyLayers_insert(polled.layers, sign_layer, gen_key_pair(rng1))
                   ELSE polled.layers
        rng2 == IF polled.died THEN RngAfterKey(rng1) ELSE rng1
    IN  [self |-> [self EXCEPT !.rng = rng2, !.layers = layers2],
         secret |-> polled.key.key.secret,
         public |-> polled.key.key.public,
         uses |-> polled.key.signs,
         pks |-> AllPublicKeys(layers2),
         sign_layer |-> sign_layer]

\* BlockSigner::next_key; u is the uniform sample drawn when one is needed
next_key(self, u, now) ==
    LET pks == AllPublicKeys(self.layers)
        sign_layer == IF self.layers.first_sign THEN 0
                      ELSE DiscreteDistribution_sample(self.distr, u)
        rng1 == IF self.layers.first_sign THEN self.rng ELSE self.rng + 1
        polled == KeyLayers_poll(self.layers, sign_layer, now)
        layers2 == IF polled.died
                   THEN KeyLayers_insert(polled.layers, sign_layer, gen_key_pair(rng1))
                   ELSE polled.layers
        rng2 == IF polled.died THEN RngAfterKey(rng1) ELSE rng1
    IN  [self |-> [self EXCEPT !.rng = rng2, !.layers = layers2],
         secret |-> polled.key.key.secret,
         public |-> polled.key.key.public,
         uses |-> polled.key.signs,
         pks |-> pks,
         sign_layer |-> sign_layer]

\* The layer next_key is about to poll
NextLayer(self, u) ==
    IF self.layers.first_sign THEN 0 ELSE DiscreteDistribution_sample(self.distr, u)

\* Two fresh keypairs on every layer
RECURSIVE PopulateLayers(_, _, _, _)
PopulateLayers(layers, rng, l_idx, n) ==
    IF l_idx >= n THEN [layers |-> layers, rng |-> rng]
    ELSE LET first == KeyLayers_insert(layers, l_idx, gen_key_pair(rng))
             second == KeyLayers_insert(first, l_idx, gen_key_pair(RngAfterKey(rng)))
         IN  PopulateLayers(second, RngAfterKey(RngAfterKey(rng)), l_idx + 1, n)

EmptyPks == [pk \in {} |-> 0]

\* BlockSignerTrait::new when no identity file exists
BlockSigner_new(nlayers) ==
    LET populated == PopulateLayers(KeyLayers_new(nlayers), 0, 0, nlayers)
    IN  [rng |-> populated.rng,
         layers |-> populated.layers,
         pks |-> EmptyPks,
         distr |-> [weights |-> [x \in 1..nlayers |-> 2 ^ (x - 1)]]]

\* BlockVerifierTrait::new when no identity file exists
BlockVerifier_new ==
    [rng |-> 0, layers |-> KeyLayers_new(0), pks |-> EmptyPks,
     distr |-> [weights |-> <<>>]]

\* bincode::serialize(&pub_keys): u64 count, then per key its length-prefixed
\* bytes and the layer byte
serialize_pub_keys(pub_keys) ==
    to_le_bytes(Len(pub_keys), 8)
    \o Concat([i \in 1..Len(pub_keys) |->
                 to_le_bytes(Len(pub_keys[i].key), 8)
                 \o pub_keys[i].key \o <<pub_keys[i].layer>>])

\* ------------------------------------------------------------------------
\* Identity file
\* ------------------------------------------------------------------------
\* An identity file is absent, or holds the words written to it so far; a
\* word stands for one integer of the bincode encoding
NoFile == [exists |-> FALSE, words |-> <<>>]

\* The entries of a hash map in the order its iterator gives them
RECURSIVE SetToSeq(_)
SetToSeq(set) ==
    IF set = {} THEN <<>>
    ELSE LET x == CHOOSE x \in set : TRUE
         IN  <<x>> \o SetToSeq(set \ {x})

\* bincode of a Vec<Vec<u8>>: the count, then every element with its length
bincode_vecs(v) ==
    <<Len(v)>> \o Concat([i \in 1..Len(v) |-> <<Len(v[i])>> \o v[i]])

\* bincode of KeyLayers: data, first_sign, until_top, next_seq
bincode_KeyLayers(layers) ==
    LET key_cont(kc) ==
            bincode_vecs(kc.key.secret.data)
            \o bincode_vecs(kc.key.secret.tree.data)
            \o <<kc.key.secret.tree.t, kc.key.secret.tree.h,
                 kc.key.secret.tree.size>>
            \o <<Len(kc.key.public)>> \o kc.key.public
            \o <<kc.last_cerified, kc.signs, kc.lifetime>>
        layer(keys) ==
            <<Len(keys)>> \o Concat([i \in 1..Len(keys) |-> key_cont(keys[i])])
    IN  <<Len(layers.data)>>
        \o Concat([l \in 1..Len(layers.data) |-> layer(layers.data[l])])
        \o <<IF layers.first_sign THEN 1 ELSE 0, layers.until_top, layers.next_seq>>

\* bincode of the pks map: the count, then key, timestamp and layer of each
bincode_pks(pks) ==
    LET keys == SetToSeq(DOMAIN pks)
    IN  <<Len(keys)>>
        \o Concat([i \in 1..Len(keys) |->
                     <<Len(keys[i])>> \o keys[i]
                     \o <<pks[keys[i]].ts, pks[keys[i]].layer>>])

\* The writes of store_state in the order they are made: the four section
\* lengths, then the sections rng, layers, pks, distr
store_state_writes(self) ==
    LET writes(rng_bytes, layers_bytes, pks_bytes, distr_bytes) ==
            << <<Len(rng_bytes)>>, <<Len(layers_bytes)>>, <<Len(pks_bytes)>>,
               <<Len(distr_bytes)>>,
               rng_bytes, layers_bytes, pks_bytes, distr_bytes >>
    IN  writes(<<self.rng>>, bincode_KeyLayers(self.layers), bincode_pks(self.pks),
               <<Len(self.distr.weights)>> \o self.distr.weights)

\* ReadVecs that leaves out the last byte of every string
RECURSIVE ReadVecs_one_short(_, _, _)
ReadVecs_one_short(b, p, n) ==
    IF n = 0 THEN [val |-> <<>>, pos |-> p]
    ELSE LET rest == ReadVecs_one_short(b, p + 1 + b[p], n - 1)
         IN  [val |-> <<SubSeq(b, p + 1, p + b[p] - 1)>> \o rest.val,
              pos |-> rest.pos]

\* n length-prefixed byte strings read from position p on
RECURSIVE ReadVecs(_, _, _)
ReadVecs(b, p, n) ==
    IF n = 0 THEN [val |-> <<>>, pos |-> p]
    ELSE LET rest == ReadVecs(b, p + 1 + b[p], n - 1)
         IN  [val |-> <<SubSeq(b, p + 1, p + b[p])>> \o rest.val, pos |-> rest.pos]

\* n KeyCont records read from position p on
RECURSIVE ReadKeys(_, _, _)
ReadKeys(b, p, n) ==
    IF n = 0 THEN [val |-> <<>>, pos |-> p]
    ELSE LET key_cont(data, tree, public) ==
                 [key |-> [secret |-> [data |-> data.val,
                                       tree |-> [data |-> tree.val,
                                                 t |-> b[tree.pos],
                                                 h |-> b[tree.pos + 1],
                                                 size |-> b[tree.pos + 2]]],
                           public |-> public.val[1]],
                  last_cerified |-> b[public.pos],
                  signs |-> b[public.pos + 1],
                  lifetime |-> b[public.pos + 2]]
             with_public(data, tree, public) ==
                 LET rest == ReadKeys(b, public.pos + 3, n - 1)
                 IN  [val |-> <<key_cont(data, tree, public)>> \o rest.val,
                      pos |-> rest.pos]
             with_tree(data, tree) ==
                 with_public(data, tree, ReadVecs(b, tree.pos + 3, 1))
             with_data(data) ==
                 with_tree(data, ReadVecs(b, data.pos + 1, b[data.pos]))
         IN  with_data(ReadVecs(b, p + 1, b[p]))

\* n layers read from position p on
RECURSIVE ReadLayers(_, _, _)
ReadLayers(b, p, n) ==
    IF n = 0 THEN [val |-> <<>>, pos |-> p]
    ELSE LET with_keys(keys) ==
                 LET rest == ReadLayers(b, keys.pos, n - 1)
                 IN  [val |-> <<keys.val>> \o rest.val, pos |-> rest.pos]
         IN  with_keys(ReadKeys(b, p + 1, b[p]))

\* A read of the pks map that takes no entry from the file
ReadPks_none(b, p, n) == [pk \in {} |-> 0]

\* n entries of the pks map read from position p on
RECURSIVE ReadPks(_, _, _)
ReadPks(b, p, n) ==
    IF n = 0 THEN [pk \in {} |-> 0]
    ELSE LET q == p + 1 + b[p]
         IN  (SubSeq(b, p + 1, p + b[p]) :> [ts |-> b[q], layer |-> b[q + 1]])
             @@ ReadPks(b, q + 2, n - 1)

\* load_state: None when the file cannot be opened, a panic when a read falls
\* short of the file, otherwise the state decoded from the four sections
load_state(file) ==
    IF ~file.exists THEN [some |-> FALSE, panic |-> FALSE]
    ELSE IF Len(file.words) < 4 THEN [some |-> FALSE, panic |-> TRUE]
    ELSE LET b == file.words
             rng_at == 5
             layers_at == rng_at + b[1]
             pks_at == layers_at + b[2]
             distr_at == pks_at + b[3]
             decoded(layers) ==
                 [rng |-> b[rng_at],
                  layers |-> [data |-> layers.val,
                              first_sign |-> (b[layers.pos] = 1),
                              until_top |-> b[layers.pos + 1],
                              next_seq |-> b[layers.pos + 2]],
                  pks |-> ReadPks(b, pks_at + 1, b[pks_at]),
                  distr |-> [weights |-> SubSeq(b, distr_at + 1, distr_at + b[distr_at])]]
         IN  IF Len(b) < 4 + b[1] + b[2] + b[3] + b[4]
             THEN [some |-> FALSE, panic |-> TRUE]
             ELSE [some |-> TRUE, panic |-> FALSE,
                   self |-> decoded(ReadLayers(b, layers_at + 1, b[layers_at]))]

\* The file after the first n writes of store_state; File::create has emptied it
FileAfter(self, n) ==
    [exists |-> TRUE, words |-> Concat(SubSeq(store_state_writes(self), 1, n))]

\* A store_state that returns without writing anything
store_state_skipped(self) == [file |-> NoFile, panic |-> FALSE]

\* store_state run to its end: the file, and whether the state read back
\* from it differs from the one in memory (assert_eq!)
store_state(self) ==
    LET checked(file, back) ==
            [file |-> file, panic |-> back.panic \/ ~back.some \/ back.self # self]
        written(file) == checked(file, load_state(file))
    IN  written(FileAfter(self, 8))

\* Payloads handed to sign
Payloads == {<<b>> : b \in 0..MaxByte}

\* ------------------------------------------------------------------------
\* BlockSigner::sign
\* ------------------------------------------------------------------------
\* Nothing returned by verify is pending: the receiver waits for a block
NoRet == [called |-> FALSE, data |-> <<>>, valid |-> FALSE, was_empty |-> FALSE,
          altered |-> FALSE, part |-> "none", pub_keys |-> <<>>, pruned |-> 0,
          panic |-> FALSE]

\* The layers polled so far after the first sign: -1 none yet, l when all
\* of them were layer l, -2 when they differ
LaneAfter(lane, first_sign, sign_layer) ==
    IF first_sign THEN lane
    ELSE IF lane = 0 - 1 \/ lane = sign_layer THEN sign_layer
    ELSE 0 - 2

\* One uniform sample for every layer the distribution can give
Samples(self) ==
    {u \in 0..(RngGranularity - 1) :
        \A v \in 0..(u - 1) : NextLayer(self, v) # NextLayer(self, u)}

\* Every sequence of layer choices is explored for the first `free` calls;
\* the sequences that stay on one layer, with no block lost or altered, are
\* explored up to `forced` calls; a run ends with the block that was altered.
\* By the time the next block is signed the
\* receiver has taken what verify returned for the previous one.
SignUpTo(free, forced) ==
    /\ ~gh.panic
    /\ net = <<>>
    /\ ~ret.altered
    /\ \E data \in Payloads, u \in Samples(signer) :
          LET sign_layer == NextLayer(signer, u)
              lane == LaneAfter(gh.lane, signer.layers.first_sign, sign_layer)
          IN  /\ \/ gh.nsigns < free
                 \/ gh.nsigns < forced /\ lane # 0 - 2 /\ gh.quiet
              /\ IF signer.layers.data[sign_layer + 1] = <<>>
                 THEN \* expect("At least one key per layer must be there!")
                      /\ gh' = [gh EXCEPT !.panic = TRUE]
                      /\ UNCHANGED <<signer, s_file, net>>
                 ELSE LET nk == next_key(signer, u, clock)
                          data_to_sign == data \o serialize_pub_keys(nk.pks)
                          signature == HorstSign(data_to_sign, nk.secret)
                          block == [data |-> data, signature |-> signature,
                                    pub_keys |-> nk.pks]
                          returned(stored) ==
                              /\ signer' = nk.self
                              /\ s_file' = stored.file
                              /\ net' = IF stored.panic THEN <<>>
                                        ELSE <<[block |-> block, by |-> nk.public,
                                                uses |-> nk.uses, altered |-> FALSE,
                                                part |-> "none"]>>
                              /\ gh' = [gh EXCEPT !.nsigns = @ + 1, !.lane = lane,
                                                  !.panic = stored.panic]
                      IN  returned(store_state(nk.self))
    /\ ret' = NoRet
    /\ UNCHANGED <<verifier, r_file, clock, ut, fr, id, tw, bc, rn>>

\* No receiver is listening: the block goes nowhere
Unheard ==
    /\ net # <<>>
    /\ net' = <<>>
    /\ UNCHANGED <<signer, verifier, s_file, r_file, clock, ret, gh, ut, fr, id, tw, bc, rn>>

\* Sender and receiver after construction, nothing sent yet
Constructed(nlayers) ==
    /\ signer = BlockSigner_new(nlayers)
    /\ verifier = BlockVerifier_new
    /\ s_file = NoFile
    /\ r_file = NoFile
    /\ net = <<>>
    /\ clock = 0
    /\ ret = NoRet
    /\ gh = [nsigns |-> 0, panic |-> FALSE, boot |-> FALSE, clean |-> FALSE,
             lane |-> 0 - 1, quiet |-> TRUE]
    /\ id = [phase |-> "off"]
    /\ tw = [phase |-> "off"]
    /\ bc = [phase |-> "off"]
    /\ rn = [phase |-> "off"]

InitWith(nlayers) ==
    /\ Constructed(nlayers)
    /\ ut = [phase |-> "off"]
    /\ fr = [phase |-> "off"]

\* ------------------------------------------------------------------------
\* The signer on its own
\* ------------------------------------------------------------------------
InitSigner == InitWith(NumLayers)
SignAlone == SignUpTo(MaxSigns, MaxForced)
NextSigner == SignAlone \/ Unheard
SpecSigner == InitSigner /\ [][NextSigner]_vars

\* ------------------------------------------------------------------------
\* Claims about the signer
\* ------------------------------------------------------------------------
KeyContsOf(self) ==
    UNION {{self.layers.data[l][i] : i \in 1..Len(self.layers.data[l])} :
              l \in 1..Len(self.layers.data)}

InitialPublicKeys ==
    {BlockSigner_new(NumLayers).layers.data[l][i].key.public :
        l \in 1..NumLayers, i \in 1..2}

\* C1: every keypair record held in the key layers has 0 <= signs <= lifetime,
\* and the key that signed the block just produced has been used at most
\* lifetime times.
C1_SignsWithinCharges ==
    /\ \A kc \in KeyContsOf(signer) : 0 <= kc.signs /\ kc.signs <= kc.lifetime
    /\ net # <<>> => net[1].uses <= LIFETIME

\* A key has just signed for the last time it may.
C1_Witness == net # <<>> /\ net[1].uses = LIFETIME

\* C2: after initialisation and after every sign every layer holds at least
\* one keypair, and no poll has failed.
C2_LayersNeverEmpty ==
    /\ \A l \in 1..Len(signer.layers.data) : Len(signer.layers.data[l]) >= 1
    /\ ~gh.panic

\* Both keys a layer started with have died and were replaced.
C2_Witness ==
    \E l \in 1..Len(signer.layers.data) :
        \A i \in 1..Len(signer.layers.data[l]) :
            signer.layers.data[l][i].key.public \notin InitialPublicKeys

\* C3: the public key of the keypair that signed a block is among the
\* block's pub_keys, and the signature over payload || serialize(pub_keys)
\* verifies under that public key and under no other of the pub_keys.
C3_SignedByListedKey ==
    (net # <<>> /\ ~net[1].altered) =>
        LET b == net[1].block
            msg == b.data \o serialize_pub_keys(b.pub_keys)
        IN  /\ \E i \in 1..Len(b.pub_keys) : b.pub_keys[i].key = net[1].by
            /\ \A i \in 1..Len(b.pub_keys) :
                  HorstVerify(msg, b.signature, b.pub_keys[i].key)
                     <=> (b.pub_keys[i].key = net[1].by)

\* A block signed by a key generated to replace one that died.
C3_Witness ==
    /\ net # <<>>
    /\ ~net[1].altered
    /\ net[1].by \notin InitialPublicKeys

\* C34: the pub_keys of a block are the public keys the layers held before
\* the sign: the key that signed is among them also when it died in that
\* sign, and a key generated in that sign is not. The front key of every
\* layer after the sign, one of which signs the next block, is listed in the
\* block, and the keys do not change between two signs.
C34_AnnouncedBeforeUse ==
    [][/\ (gh'.nsigns > gh.nsigns /\ net' # <<>>) =>
             LET listed == {net'[1].block.pub_keys[i].key :
                               i \in 1..Len(net'[1].block.pub_keys)}
                 before == {kc.key.public : kc \in KeyContsOf(signer)}
                 after == {kc.key.public : kc \in KeyContsOf(signer')}
             IN  /\ listed = before
                 /\ net'[1].by \in listed
                 /\ \E l \in 1..Len(signer.layers.data) :
                       net'[1].by = signer.layers.data[l][1].key.public
                 /\ (after \ before) \cap listed = {}
                 /\ \A l \in 1..Len(signer'.layers.data) :
                       signer'.layers.data[l][1].key.public \in listed
       /\ gh'.nsigns = gh.nsigns => signer'.layers = signer.layers]_vars

\* A block other than the first has been signed by a key that died in the
\* sign, and the layers hold its replacement, which the block does not list.
C34_Witness ==
    /\ net # <<>>
    /\ gh.nsigns > 1
    /\ net[1].by \notin {kc.key.public : kc \in KeyContsOf(signer)}
    /\ \E kc \in KeyContsOf(signer) :
          \A i \in 1..Len(net[1].block.pub_keys) :
             net[1].block.pub_keys[i].key # kc.key.public

\* C35: every layer holds two keypairs, after initialisation and after every
\* sign, and no step changes the number of keypairs of a layer.
C35_TwoKeysPerLayer ==
    /\ \A l \in 1..Len(signer.layers.data) : Len(signer.layers.data[l]) = 2
    /\ Len(signer.layers.data) = NumLayers

\* A layer holds a key it started with and, behind it, the replacement of the
\* other.
C35_Witness ==
    \E l \in 1..Len(signer.layers.data) :
        /\ signer.layers.data[l][1].key.public \in InitialPublicKeys
        /\ signer.layers.data[l][2].key.public \notin InitialPublicKeys
        /\ signer.layers.data[l][1].signs > 0

\* C22: every sign leaves the next_seq counter of the key layers greater than
\* it found it.
C22_SeqStrictlyIncreases ==
    [][gh'.nsigns > gh.nsigns =>
          signer'.layers.next_seq > signer.layers.next_seq]_vars

\* C14: on a run whose sign calls all poll one layer, after n calls on that
\* layer floor(n / lifetime) front keys have been evicted, one fresh key was
\* appended at the back for each, the front key has served n mod lifetime
\* calls, the keys stand in the order they were generated, and the layer was
\* never empty.
C14_EvictionEveryLifetime ==
    (gh.nsigns > 0 /\ gh.lane # 0 - 2) =>
        LET l == IF gh.lane = 0 - 1 THEN 1 ELSE gh.lane + 1
            n == IF l = 1 THEN gh.nsigns ELSE gh.nsigns - 1
            keys == signer.layers.data[l]
        IN  /\ ~gh.panic
            /\ Len(keys) = 2
            /\ keys[1].signs = n % LIFETIME
            /\ keys[2].signs = 0
            /\ Cardinality({i \in 1..2 : keys[i].key.public \notin InitialPublicKeys})
                 = n \div LIFETIME
            /\ keys[1].key.secret.data[1][1] < keys[2].key.secret.data[1][1]

\* A layer has been polled twice its lifetime: both keys it started with are gone.
C14_Witness ==
    /\ gh.lane >= 0
    /\ gh.nsigns - (IF gh.lane = 0 THEN 0 ELSE 1) = 2 * LIFETIME
    /\ \A i \in 1..2 :
          signer.layers.data[gh.lane + 1][i].key.public \notin InitialPublicKeys

\* ------------------------------------------------------------------------
\* Public-key cache of the verifier
\* ------------------------------------------------------------------------
\* The loop of verify that stores the keys not yet cached, each with the time
\* of the insertion and the layer it was announced on
RECURSIVE StorePks(_, _, _, _)
StorePks(pks, pub_keys, i, now) ==
    IF i > Len(pub_keys) THEN pks
    ELSE LET kw == pub_keys[i]
         IN  StorePks(IF kw.key \in DOMAIN pks THEN pks
                      ELSE (kw.key :> [ts |-> now, layer |-> kw.layer]) @@ pks,
                      pub_keys, i + 1, now)

LayerKeys(pks, l) == {k \in DOMAIN pks : pks[k].layer = l}

\* The keys on layers that hold more than max_per_layer keys
Crowded(pks, max_per_layer) ==
    {k \in DOMAIN pks : Cardinality(LayerKeys(pks, pks[k].layer)) > max_per_layer}

\* The sets of keys prune_pks may remove: on every crowded layer the excess
\* over max_per_layer, taken from the front of the stable sort by timestamp
\* of a list built in the iteration order of the hash map
Evictable(pks, max_per_layer) ==
    LET crowded == Crowded(pks, max_per_layer)
    IN  {gone \in SUBSET crowded :
            \A l \in {pks[k].layer : k \in crowded} :
                LET pk_list == LayerKeys(pks, l)
                    to_remove == gone \cap pk_list
                IN  /\ Cardinality(to_remove) = Cardinality(pk_list) - max_per_layer
                    /\ \A r \in to_remove, k \in pk_list \ to_remove :
                          pks[r].ts <= pks[k].ts}

\* prune_pks that lets one key more than the maximum stay on a layer
prune_pks_keeps_one_more(pks, max_per_layer) ==
    {[k \in DOMAIN pks \ gone |-> pks[k]] : gone \in Evictable(pks, max_per_layer + 1)}

\* BlockSigner::prune_pks: the caches it may leave behind
prune_pks(pks, max_per_layer) ==
    {[k \in DOMAIN pks \ gone |-> pks[k]] : gone \in Evictable(pks, max_per_layer)}

\* ------------------------------------------------------------------------
\* BlockVerifier::verify
\* ------------------------------------------------------------------------
\* Whether some cached public key verifies the block
\* The segment indices of a signed block
BlockIndices(block) ==
    get_segment_indices(K, TAU,
        MsgHashFn_digest(block.data \o serialize_pub_keys(block.pub_keys)))

ValidAt(pks, indices, signature) ==
    \E pk \in DOMAIN pks : VerifyAt(indices, signature, pk)

ValidUnder(pks, block) == ValidAt(pks, BlockIndices(block), block.signature)

\* Whether the loop of verify over the cached keys comes to a key it panics at
PanicsUnder(pks, block) ==
    LET at(indices) ==
            \E pk \in DOMAIN pks : VerifyPanicsAt(indices, block.signature, pk)
    IN  at(BlockIndices(block))

\* verify that stores the announced keys whether or not the block is valid
StoredBy_always(pks, pub_keys, valid, now) == StorePks(pks, pub_keys, 1, now)

\* verify that skips the first announced key
StoredBy_skips_first(pks, pub_keys, valid, now) ==
    IF valid \/ DOMAIN pks = {} THEN StorePks(pks, pub_keys, 2, now) ELSE pks

\* The cache of verify before it prunes
StoredBy(pks, pub_keys, valid, now) ==
    IF valid \/ DOMAIN pks = {} THEN StorePks(pks, pub_keys, 1, now) ELSE pks

\* bincode::deserialize::<SignedBlock>: fails on bytes that end before the
\* lengths they announce are filled
Deserializes(msg) == msg.part # "bytes"

\* The payload in what verify returns: Ok((block.data, valid, ..))
verify_returns(block, valid) == block.data

Verify ==
    /\ net # <<>>
    /\ ~ret.panic
    /\ IF ~Deserializes(net[1]) \/ PanicsUnder(verifier.pks, net[1].block)
       THEN \* expect("Should be deserializable!"), or indices[i] out of bounds
            /\ ret' = [NoRet EXCEPT !.called = TRUE, !.altered = TRUE,
                                    !.part = net[1].part, !.panic = TRUE]
            /\ gh' = [gh EXCEPT !.clean = FALSE]
            /\ UNCHANGED <<verifier, r_file>>
       ELSE LET block == net[1].block
                was_empty == DOMAIN verifier.pks = {}
                valid == ValidUnder(verifier.pks, block)
                stored == StoredBy(verifier.pks, block.pub_keys, valid, clock)
            IN  \E new_pks \in IF valid \/ was_empty
                               THEN prune_pks(stored, MAX_PKS)
                               ELSE {stored} :
                   /\ verifier' = [verifier EXCEPT !.pks = new_pks]
                   /\ r_file' = store_state(verifier').file
                   /\ ret' = [called |-> TRUE,
                              data |-> verify_returns(block, valid),
                              valid |-> valid,
                              was_empty |-> was_empty,
                              altered |-> net[1].altered,
                              part |-> net[1].part,
                              pub_keys |-> block.pub_keys,
                              pruned |-> Cardinality(DOMAIN stored)
                                         - Cardinality(DOMAIN new_pks),
                              panic |-> FALSE]
                   /\ gh' = [gh EXCEPT
                               !.boot = @ \/ was_empty,
                               !.clean = IF was_empty THEN ~net[1].altered
                                         ELSE @ /\ ~net[1].altered]
    /\ net' = <<>>
    /\ UNCHANGED <<signer, s_file, clock, ut, fr, id, tw, bc, rn>>

\* utils::unix_ts() advances
Tick ==
    /\ clock < MaxClock
    /\ clock' = clock + 1
    /\ UNCHANGED <<signer, verifier, s_file, r_file, net, ret, gh, ut, fr, id, tw, bc, rn>>

\* ------------------------------------------------------------------------
\* Blocks altered in transit
\* ------------------------------------------------------------------------
\* A public key the signer never generated
ForgedKey(n) == TreeHashFn_digest(<<0 - 2 - n>>)

OtherPayloads(data) == Payloads \ {data}

\* Signatures with trailing elements cut off, with one revealed secret
\* replaced, or with the last element repeated at the end
OtherSignatures(signature) ==
    {SubSeq(signature, 1, n) : n \in 0..(Len(signature) - 1)}
    \cup {[signature EXCEPT ![i][1] = <<0>>] : i \in 1..Len(signature)}
    \cup {Append(signature, signature[Len(signature)])}

\* Key lists with the last key dropped, one key moved to another layer, a key
\* repeated under another layer, or MAX_PKS forged keys added to a layer
OtherPubKeys(pub_keys) ==
    {SubSeq(pub_keys, 1, Len(pub_keys) - 1)}
    \cup {[pub_keys EXCEPT ![i].layer = l] :
             i \in 1..Len(pub_keys), l \in 0..(NumLayers - 1)}
    \cup {pub_keys \o <<[key |-> pub_keys[i].key, layer |-> l]>> :
             i \in 1..Len(pub_keys), l \in 0..(NumLayers - 1)}
    \cup {pub_keys \o [n \in 1..MAX_PKS |-> [key |-> ForgedKey(n), layer |-> l]] :
             l \in 0..(NumLayers - 1)}

\* The altered blocks, each with the part that was altered; "bytes" stands
\* for the serialized block cut short, which is no SignedBlock any more
Altered(block) ==
    {[block |-> [block EXCEPT !.data = d], part |-> "data"] :
        d \in OtherPayloads(block.data)}
    \cup {[block |-> [block EXCEPT !.signature = sg], part |-> "signature"] :
             sg \in OtherSignatures(block.signature) \ {block.signature}}
    \cup {[block |-> [block EXCEPT !.pub_keys = pk], part |-> "pub_keys"] :
             pk \in OtherPubKeys(block.pub_keys) \ {block.pub_keys}}
    \cup {[block |-> block, part |-> "bytes"]}

Tamper ==
    /\ net # <<>>
    /\ ~net[1].altered
    /\ gh.quiet
    /\ gh.nsigns <= MaxBlocks
    /\ \E a \in Altered(net[1].block) :
          net' = <<[net[1] EXCEPT !.block = a.block, !.altered = TRUE,
                                  !.part = a.part]>>
    /\ gh' = [gh EXCEPT !.quiet = FALSE]
    /\ UNCHANGED <<signer, verifier, s_file, r_file, clock, ret, ut, fr, id, tw, bc, rn>>

\* The transport loses the block
Drop ==
    /\ net # <<>>
    /\ gh.nsigns <= MaxBlocks
    /\ net' = <<>>
    /\ gh' = [gh EXCEPT !.clean = FALSE, !.quiet = FALSE]
    /\ UNCHANGED <<signer, verifier, s_file, r_file, clock, ret, ut, fr, id, tw, bc, rn>>

\* ------------------------------------------------------------------------
\* Sender, transport and receiver
\* ------------------------------------------------------------------------
Init == InitWith(NumLayers)
Sign == SignUpTo(MaxBlocks, MaxForced)
Next == Sign \/ Drop \/ Tamper \/ Verify \/ Tick
Spec == Init /\ [][Next]_vars

\* The receiver is started again after verify returned or panicked:
\* BlockVerifierTrait::new takes the state load_state finds in the identity
\* file, or a verifier with an empty cache if there is no file. Nothing
\* returned is pending then; part notes that the verifier was constructed
\* anew, and altered stays as it was, which ends the run after a block that
\* was altered.
RestartVerifier ==
    /\ ret.called
    /\ LET loaded == load_state(r_file)
       IN  /\ ~loaded.panic
           /\ verifier' = IF loaded.some THEN loaded.self ELSE BlockVerifier_new
    /\ ret' = [NoRet EXCEPT !.part = "reloaded", !.altered = ret.altered]
    /\ UNCHANGED <<signer, s_file, r_file, net, clock, gh, ut, fr, id, tw, bc, rn>>

\* A sender with one layer fewer, and a receiver constructed without a file
InitReload == InitWith(NumLayers - 1)
NextReload == Next \/ RestartVerifier
SpecReload == InitReload /\ [][NextReload]_vars

\* ------------------------------------------------------------------------
\* Claims about the verifier
\* ------------------------------------------------------------------------
\* C5: a verifier with a non-empty cache returns authenticated = false for a
\* signer-produced block that was altered; stated here for the blocks whose
\* signature was altered.
C5_AlteredSignatureRejected ==
    (ret.called /\ ~ret.was_empty /\ ret.part = "signature") => ~ret.valid

\* C6: a verifier with an empty cache accepts the block and returns
\* authenticated = true.
C6_BootstrapAuthenticated ==
    (ret.called /\ ret.was_empty) => ret.valid

\* Whether every key of the list is cached under the layer it is listed with
AllCachedWithLayer(pks, pub_keys) ==
    \A i \in 1..Len(pub_keys) :
        /\ pub_keys[i].key \in DOMAIN pks
        /\ pks[pub_keys[i].key].layer = pub_keys[i].layer

\* No layer is listed with more than max_per_layer different keys, and no key
\* is listed under two layers
FitsTheCache(pub_keys, max_per_layer) ==
    /\ \A i \in 1..Len(pub_keys) :
          Cardinality({pub_keys[j].key :
                          j \in {j \in 1..Len(pub_keys) :
                                    pub_keys[j].layer = pub_keys[i].layer}})
             <= max_per_layer
    /\ \A i, j \in 1..Len(pub_keys) :
          pub_keys[i].key = pub_keys[j].key => pub_keys[i].layer = pub_keys[j].layer

\* C7 as stated: after a fresh receiver verified its first block the cache
\* holds every piggybacked key under the layer it was piggybacked with.
C7_AllPiggybackedCached ==
    (ret.called /\ ret.was_empty) => AllCachedWithLayer(verifier.pks, ret.pub_keys)

\* C7 amended: after a fresh receiver verified its first block the cache
\* holds every piggybacked key under the layer it was piggybacked with,
\* provided the block lists at most MAX_PKS different keys per layer and no
\* key under two layers.
C7_PiggybackedCachedIfFits ==
    (ret.called /\ ret.was_empty /\ FitsTheCache(ret.pub_keys, MAX_PKS))
        => AllCachedWithLayer(verifier.pks, ret.pub_keys)

\* A fresh receiver has verified a block of the signer, with the two keys of
\* every layer on it.
C7_Witness ==
    /\ ret.called
    /\ ret.was_empty
    /\ ~ret.altered
    /\ Len(ret.pub_keys) = 2 * NumLayers
    /\ FitsTheCache(ret.pub_keys, MAX_PKS)

\* C8: a receiver that bootstrapped on a block of the signer and has verified
\* every later block in order, none lost and none altered, gets authenticated
\* = true for each of them.
C8_ChainAuthenticated ==
    (ret.called /\ ~ret.was_empty /\ gh.clean) => ret.valid

\* C9: on every layer the cache holds at most MAX_PKS keys.
C9_CacheWithinMax ==
    \A k \in DOMAIN verifier.pks :
        Cardinality(LayerKeys(verifier.pks, verifier.pks[k].layer)) <= MAX_PKS

\* A verify call has pruned the cache.
C9_Witness == ret.called /\ ret.pruned > 0

\* C15: verify called on bytes that do not deserialize into a SignedBlock
\* returns to its caller (with an error value) and does not abort the
\* verifier.
C15_MalformedReturnsError ==
    (ret.called /\ ret.part = "bytes") => ~ret.panic

\* C16: for every block that deserializes, whether or not its signature
\* verified, verify returns, and what it returns holds the payload of the
\* block as it was received.
C16_PayloadAlwaysReturned ==
    [][(net # <<>> /\ Deserializes(net[1]) /\ ret'.called)
          => (~ret'.panic /\ ret'.data = net[1].block.data)]_vars

\* C26: verify does not accept, under any cached public key, a signature that
\* holds fewer than K elements, whatever the message.
C26_ShortSignatureRejected ==
    [][(/\ net # <<>>
        /\ Deserializes(net[1])
        /\ Len(net[1].block.signature) < K
        /\ ret'.called)
          => ~ret'.valid]_vars

\* C32: a verify call made with a cache that is not empty, on a block whose
\* signature verifies under no cached key (authenticated = false is what it
\* returns), leaves the cache as it was.
C32_UnverifiedLeavesCache ==
    [][(/\ net # <<>>
        /\ DOMAIN verifier.pks # {}
        /\ ret'.called
        /\ ~ret'.valid)
          => verifier'.pks = verifier.pks]_vars

\* A receiver with keys cached has returned from verify with authenticated =
\* false on a block that lists a key it has not cached.
C32_Witness ==
    /\ ret.called
    /\ ~ret.panic
    /\ ~ret.was_empty
    /\ ~ret.valid
    /\ \E i \in 1..Len(ret.pub_keys) : ret.pub_keys[i].key \notin DOMAIN verifier.pks

\* C36: no step empties a cache that holds a key, neither a verify call nor a
\* restart of the receiver from its identity file, and the cache changes only
\* in a verify call that found the signature to verify under a cached key
\* (authenticated = true is what it returns), or in one made with the cache
\* empty.
C36_CacheStaysNonEmpty ==
    [][/\ DOMAIN verifier.pks # {} => DOMAIN verifier'.pks # {}
       /\ (DOMAIN verifier.pks # {} /\ verifier'.pks # verifier.pks) =>
             /\ net # <<>>
             /\ ret'.called
             /\ ret'.valid]_vars

\* A receiver with keys cached was started again and holds the keys.
C36_Witness ==
    /\ ret.part = "reloaded"
    /\ DOMAIN verifier.pks # {}
    /\ r_file.exists

\* C37: a key comes into the cache only in a verify call, as one of the keys
\* the block lists, and only if the call was made with the cache empty or
\* found the signature to verify under a key that was cached; no other step,
\* a restart of the receiver included, adds a key.
C37_KeysCertifiedOnly ==
    [][\A k \in DOMAIN verifier'.pks \ DOMAIN verifier.pks :
          /\ net # <<>>
          /\ ret'.called
          /\ DOMAIN verifier.pks = {} \/ ret'.valid
          /\ \E i \in 1..Len(net[1].block.pub_keys) :
                /\ net[1].block.pub_keys[i].key = k
                /\ net[1].block.pub_keys[i].layer = verifier'.pks[k].layer]_vars

\* A receiver that had keys cached has verified a block of the signer and
\* holds a key generated to replace one that died.
C37_Witness ==
    /\ ret.called
    /\ ~ret.was_empty
    /\ ret.valid
    /\ ~ret.altered
    /\ \E i \in 1..Len(ret.pub_keys) :
          /\ ret.pub_keys[i].key \notin InitialPublicKeys
          /\ ret.pub_keys[i].key \in DOMAIN verifier.pks

\* C30: the cache a verify call leaves after pruning is determined by the
\* cache it pruned: the entries with the oldest timestamps are gone, and
\* among entries of equal timestamp there is one choice only.
C30_PruneDeterministic ==
    [][(/\ net # <<>>
        /\ Deserializes(net[1])
        /\ ret'.called
        /\ ~ret'.panic
        /\ ret'.pruned > 0)
          => Cardinality(prune_pks(StoredBy(verifier.pks, net[1].block.pub_keys,
                                            ret'.valid, clock),
                                   MAX_PKS)) = 1]_vars


\* ------------------------------------------------------------------------
\* The signature scheme on its own
\* ------------------------------------------------------------------------
\* Byte strings of at most n bytes
RECURSIVE BytesUpTo(_)
BytesUpTo(n) ==
    IF n = 0 THEN {<<>>}
    ELSE BytesUpTo(n - 1) \cup [1..n -> 0..MaxByte]

\* The stream position the i-th keypair is drawn at
KeyAt(i) == gen_key_pair(i * (2 ^ TAU))

\* A message and two different keypairs of one CSPRNG stream
InitHorst ==
    /\ Constructed(NumLayers)
    /\ \E msg \in BytesUpTo(MaxMsgLen), own \in 0..(MaxKeys - 1),
          other \in 0..(MaxKeys - 1) :
          /\ own # other
          /\ ut = [phase |-> "drawn", msg |-> msg, own |-> own, other |-> other]
    /\ fr = [phase |-> "off"]

\* Sign with both secret keys, verify both signatures under the first public key
SignAndVerify ==
    /\ ut.phase = "drawn"
    /\ LET own == KeyAt(ut.own)
           other == KeyAt(ut.other)
       IN  ut' = [phase |-> "done", msg |-> ut.msg, own |-> ut.own,
                  other |-> ut.other,
                  ok_own |-> HorstVerify(ut.msg, HorstSign(ut.msg, own.secret),
                                         own.public),
                  ok_other |-> HorstVerify(ut.msg, HorstSign(ut.msg, other.secret),
                                           own.public)]
    /\ UNCHANGED <<signer, verifier, s_file, r_file, net, clock, ret, gh, fr, id, tw, bc, rn>>

NextHorst == SignAndVerify
SpecHorst == InitHorst /\ [][NextHorst]_vars

\* C4: a signature made with the secret key of a keypair verifies under the
\* public key of that keypair, and a signature of the same message made with
\* the secret key of another keypair does not.
C4_SignVerifyRoundTrip ==
    ut.phase = "done" => (ut.ok_own /\ ~ut.ok_other)

\* Both signatures of a message of the longest length have been verified.
C4_Witness == ut.phase = "done" /\ Len(ut.msg) = MaxMsgLen

\* ------------------------------------------------------------------------
\* The Merkle tree on its own
\* ------------------------------------------------------------------------
\* Leaves drawn from a CSPRNG stream, of any number and none, and a leaf
\* index to query, in range or just past it
InitTree ==
    /\ Constructed(NumLayers)
    /\ fr = [phase |-> "off"]
    /\ \E t \in 0..MaxLeaves, seed \in 0..MaxKeys, leaf_idx \in 0..MaxLeaves :
          /\ leaf_idx <= t
          /\ ut = [phase |-> "leaves",
                   leaves |-> [i \in 1..t |-> <<RngOut(seed + i - 1)>>],
                   leaf_idx |-> leaf_idx]

\* MerkleTree::new: the power-of-two assertion compares the ceiling and the
\* truncation of log2(t) cast to usize; log2(0) is minus infinity, which
\* both casts saturate to 0
BuildTree ==
    /\ ut.phase = "leaves"
    /\ LET t == Len(ut.leaves)
           ceil == IF t = 0 THEN 0
                   ELSE IF 2 ^ Log2Floor(t) = t THEN Log2Floor(t)
                   ELSE Log2Floor(t) + 1
           trunc == Log2Floor(t)
       IN  ut' = IF ceil # trunc
                 THEN [phase |-> "built", leaves |-> ut.leaves,
                       leaf_idx |-> ut.leaf_idx, failed |-> TRUE]
                 ELSE [phase |-> "built", leaves |-> ut.leaves,
                       leaf_idx |-> ut.leaf_idx, failed |-> FALSE,
                       tree |-> MerkleTree_new(ut.leaves)]
    /\ UNCHANGED <<signer, verifier, s_file, r_file, net, clock, ret, gh, fr, id, tw, bc, rn>>

\* MerkleTree::get_auth_path, which panics on a leaf index out of range
QueryAuthPath ==
    /\ ut.phase = "built"
    /\ ~ut.failed
    /\ ut' = IF ut.leaf_idx >= ut.tree.t
             THEN [ut EXCEPT !.phase = "queried"] @@ [panic |-> TRUE, path |-> <<>>]
             ELSE [ut EXCEPT !.phase = "queried"]
                  @@ [panic |-> FALSE,
                      path |-> MerkleTree_get_auth_path(ut.tree, ut.leaf_idx)]
    /\ UNCHANGED <<signer, verifier, s_file, r_file, net, clock, ret, gh, fr, id, tw, bc, rn>>

NextTree == BuildTree \/ QueryAuthPath
SpecTree == InitTree /\ [][NextTree]_vars

\* C27: MerkleTree::new called with no leaves fails, and produces no tree.
C27_NoLeavesRejected ==
    (ut.phase \in {"built", "queried"} /\ ut.leaves = <<>>) => ut.failed

\* C28: the authentication path of leaf i of a tree over 2^tau leaves has tau
\* entries; the j-th is the sibling of the j-th node on the way from the leaf
\* to the root; and the hash of the leaf folded with the entries, an entry put
\* on the left when the position is odd, is the root.
C28_AuthPathFoldsToRoot ==
    (ut.phase = "queried" /\ ~ut.panic /\ ut.leaves # <<>>) =>
        LET tau == Log2Floor(Len(ut.leaves))
            XorOne(pos) == IF pos % 2 = 0 THEN pos + 1 ELSE pos - 1
        IN  /\ Len(ut.path) = tau
            /\ \A j \in 1..Len(ut.path) :
                  ut.path[j] = MerkleTree_get(ut.tree, ut.tree.h - j,
                                              XorOne(ut.leaf_idx \div (2 ^ (j - 1))))
            /\ SegmentRoot(<<ut.leaves[ut.leaf_idx + 1]>> \o ut.path, 1,
                           ut.leaf_idx, TreeHashFn_digest(<<>>))
                 = MerkleTree_root(ut.tree)

\* The path of the last leaf of the largest tree has been queried.
C28_Witness ==
    /\ ut.phase = "queried"
    /\ ~ut.panic
    /\ Len(ut.leaves) = 2 ^ Log2Floor(MaxLeaves)
    /\ Len(ut.path) >= 2
    /\ ut.leaf_idx = Len(ut.leaves) - 1

\* ------------------------------------------------------------------------
\* The bytes that are signed
\* ------------------------------------------------------------------------
\* A payload and the list of keys next_key gives with it: one key of one
\* byte, which is not zero, on some layer. The payload is a short message, or a short message
\* followed by sixteen bytes that read as the number 1 and a length.
InitSplit ==
    /\ Constructed(NumLayers)
    /\ fr = [phase |-> "off"]
    /\ \E m \in UNION {[1..n -> 0..MaxByte] : n \in 0..MaxMsgLen},
          l \in 0..MaxSplitLen, b \in 1..(MaxByte + 1), layer \in 0..(NumLayers - 1) :
          ut = [phase |-> "block",
                data |-> IF l = 0 THEN m
                         ELSE m \o to_le_bytes(1, 8) \o to_le_bytes(l, 8),
                pub_keys |-> <<[key |-> <<b>>, layer |-> layer]>>]

\* sign and verify build the bytes the signature is over: the payload, then
\* the serialized key list
SignBytes ==
    /\ ut.phase = "block"
    /\ ut' = [ut EXCEPT !.phase = "signed"]
             @@ [bytes |-> ut.data \o serialize_pub_keys(ut.pub_keys)]
    /\ UNCHANGED <<signer, verifier, s_file, r_file, net, clock, ret, gh, fr, id, tw, bc, rn>>

\* A block on the wire whose payload and key list give the same bytes: the
\* payload is the first n of them, and the list is the list signed, the
\* empty list, or the list of the one key that takes the rest
Resplit ==
    /\ ut.phase = "signed"
    /\ \E n \in 0..Len(ut.bytes) :
          \E pub_keys \in
                {ut.pub_keys, <<>>,
                 <<[key |-> SubSeq(ut.bytes, n + 17, Len(ut.bytes) - 1),
                    layer |-> ut.bytes[Len(ut.bytes)]]>>} :
             /\ SubSeq(ut.bytes, 1, n) \o serialize_pub_keys(pub_keys) = ut.bytes
             /\ ut' = [ut EXCEPT !.phase = "resplit"]
                      @@ [other |-> [data |-> SubSeq(ut.bytes, 1, n),
                                     pub_keys |-> pub_keys]]
    /\ UNCHANGED <<signer, verifier, s_file, r_file, net, clock, ret, gh, fr, id, tw, bc, rn>>

NextSplit == SignBytes \/ Resplit
SpecSplit == InitSplit /\ [][NextSplit]_vars

\* C33: a payload and a key list that give the bytes that were signed are the
\* payload and the key list that were signed.
C33_SignedBytesDetermineBlock ==
    ut.phase = "resplit" =>
        (ut.other.data = ut.data /\ ut.other.pub_keys = ut.pub_keys)

\* ------------------------------------------------------------------------
\* Parameter validation
\* ------------------------------------------------------------------------
\* HorstSigScheme::check_params for the parameters K, TAU, MSG_HASH_SIZE and
\* TREE_HASH_SIZE and the output sizes of the two hash functions
check_params(k, tau, msg_hash_size, tree_hash_size, msg_out, tree_out) ==
    IF msg_hash_size # msg_out THEN FALSE
    ELSE IF tree_hash_size # tree_out THEN FALSE
    ELSE IF tau > 64 THEN FALSE
    ELSE IF (msg_hash_size * 8) % tau # 0 THEN FALSE
    ELSE TRUE

\* A parameter set and the hash functions it is instantiated with
InitParams ==
    /\ Constructed(NumLayers)
    /\ fr = [phase |-> "off"]
    /\ \E k \in 1..MaxParamK, tau \in (1..MaxParamTau) \cup {65},
          msg_hash_size \in 1..MaxParamBytes, tree_hash_size \in 1..MaxParamBytes,
          msg_out \in 1..MaxParamBytes, tree_out \in 1..MaxParamBytes :
          ut = [phase |-> "params", k |-> k, tau |-> tau,
                msg_hash_size |-> msg_hash_size, tree_hash_size |-> tree_hash_size,
                msg_out |-> msg_out, tree_out |-> tree_out,
                ok |-> FALSE, panic |-> FALSE, indices |-> <<>>]

\* The parameters are validated once
CheckParams ==
    /\ ut.phase = "params"
    /\ ut' = [ut EXCEPT !.phase = "checked",
                        !.ok = check_params(ut.k, ut.tau, ut.msg_hash_size,
                                            ut.tree_hash_size, ut.msg_out,
                                            ut.tree_out)]
    /\ UNCHANGED <<signer, verifier, s_file, r_file, net, clock, ret, gh, fr, id, tw, bc, rn>>

\* sign and verify extract the indices of a message hash: the reader fails,
\* and the unwrap panics, when more than 64 bits are asked for at once or
\* when the hash has no TAU bits left
ExtractIndices ==
    /\ ut.phase = "checked"
    /\ ut.ok
    /\ \E msg_hash \in [1..ut.msg_hash_size -> {0, 165, 255}] :
          ut' = IF ut.tau > 64 \/ ut.k * ut.tau > 8 * Len(msg_hash)
                THEN [ut EXCEPT !.phase = "indexed", !.panic = TRUE]
                ELSE [ut EXCEPT !.phase = "indexed",
                                !.indices = get_segment_indices(ut.k, ut.tau,
                                                                msg_hash)]
    /\ UNCHANGED <<signer, verifier, s_file, r_file, net, clock, ret, gh, fr, id, tw, bc, rn>>

NextParams == CheckParams \/ ExtractIndices
SpecParams == InitParams /\ [][NextParams]_vars

\* C25: parameters are accepted only if the message hash has at least K * TAU
\* bits, the tree hash output has the size of a tree node, TAU is at most 64
\* and the bits of the message hash are a multiple of TAU; and once they are
\* accepted the extraction yields K indices below 2^TAU without failing.
C25_ParamsGuardIndices ==
    /\ (ut.phase \in {"checked", "indexed"} /\ ut.ok) =>
          /\ 8 * ut.msg_out >= ut.k * ut.tau
          /\ ut.tree_out = ut.tree_hash_size
          /\ ut.tau <= 64
          /\ (8 * ut.msg_out) % ut.tau = 0
    /\ ut.phase = "indexed" =>
          /\ ~ut.panic
          /\ Len(ut.indices) = ut.k
          /\ \A i \in 1..Len(ut.indices) :
                ut.indices[i] >= 0 /\ ut.indices[i] < 2 ^ ut.tau

\* ------------------------------------------------------------------------
\* Datagram codec
\* ------------------------------------------------------------------------
\* xxh3_64 of a block: a 64-bit fingerprint, here a checksum of bytes and length
xxh3_64(data) == 7919 * (1 + MsgHashSum(data, 1, Len(data))) + Len(data)

\* common::get_datagram_sizes: size of a datagram, of its header, of its payload
get_datagram_sizes == <<DATAGRAM_SIZE, 8 + (2 * 4), DATAGRAM_SIZE - (8 + (2 * 4))>>

\* split_to_datagrams with the datagram count rounded down
split_to_datagrams_rounded_down(data) ==
    LET hash == to_le_bytes(xxh3_64(data), 8)
        payload_size == get_datagram_sizes[3]
        data_size == Len(data)
        num_dgrams == data_size \div payload_size
    IN  [n \in 1..num_dgrams |->
           hash \o to_le_bytes(n - 1, 4) \o to_le_bytes(num_dgrams, 4)
           \o SubSeq(data, ((n - 1) * payload_size) + 1,
                     Min(n * payload_size, data_size))]

\* NetSender::split_to_datagrams
split_to_datagrams(data) ==
    LET hash == to_le_bytes(xxh3_64(data), 8)
        payload_size == get_datagram_sizes[3]
        data_size == Len(data)
        num_dgrams == (data_size + payload_size - 1) \div payload_size
    IN  [n \in 1..num_dgrams |->
           hash \o to_le_bytes(n - 1, 4) \o to_le_bytes(num_dgrams, 4)
           \o SubSeq(data, ((n - 1) * payload_size) + 1,
                     Min(n * payload_size, data_size))]

\* net_receiver::parse_datagram
parse_datagram(data) ==
    [hash |-> from_le_bytes(SubSeq(data, 1, 8)),
     idx |-> from_le_bytes(SubSeq(data, 9, 12)),
     count |-> from_le_bytes(SubSeq(data, 13, 16)),
     data |-> SubSeq(data, 17, Len(data))]

\* A record that misses its first index only
FragmentedBlock_new_first_only(frag_size, num_fragments) ==
    [data |-> [n \in 1..(frag_size * num_fragments) |-> 0],
     frag_size |-> frag_size,
     missing_indices |-> {0}]

\* FragmentedBlock::new
FragmentedBlock_new(frag_size, num_fragments) ==
    [data |-> [n \in 1..(frag_size * num_fragments) |-> 0],
     frag_size |-> frag_size,
     missing_indices |-> 0..(num_fragments - 1)]

\* FragmentedBlock::insert: the updated record, what insert returns (<<>> for
\* None, <<bytes>> for Some(bytes)), and whether the slice was out of range
FragmentedBlock_insert(self, idx, fragment) ==
    LET idx_from == idx * self.frag_size
        idx_to == idx_from + Len(fragment)
    IN  IF idx_to > Len(self.data)
        THEN [self |-> self, res |-> <<>>, panic |-> TRUE]
        ELSE LET copied == [n \in 1..Len(self.data) |->
                              IF n > idx_from /\ n <= idx_to
                              THEN fragment[n - idx_from]
                              ELSE self.data[n]]
                 missing == self.missing_indices \ {idx}
             IN  [self |-> [self EXCEPT !.data = copied,
                                        !.missing_indices = missing],
                  res |-> IF missing = {} THEN <<copied>> ELSE <<>>,
                  panic |-> FALSE]

\* FragmentedBlocks::new
FragmentedBlocks_new == [blocks |-> [hash \in {} |-> 0]]

\* A map without one of its keys
Without(map, key) == [k \in DOMAIN map \ {key} |-> map[k]]

\* FragmentedBlocks::insert
FragmentedBlocks_insert(self, dgram) ==
    LET parsed == parse_datagram(dgram)
        payload_size == get_datagram_sizes[3]
        blocks == IF parsed.hash \in DOMAIN self.blocks THEN self.blocks
                  ELSE (parsed.hash :> FragmentedBlock_new(payload_size, parsed.count))
                       @@ self.blocks
        done == FragmentedBlock_insert(blocks[parsed.hash], parsed.idx, parsed.data)
    IN  [self |-> [self EXCEPT !.blocks =
                      IF done.panic THEN blocks
                      ELSE IF done.res # <<>> THEN Without(blocks, parsed.hash)
                      ELSE [blocks EXCEPT ![parsed.hash] = done.self]],
         res |-> done.res,
         panic |-> done.panic]

\* Blocks handed to the codec
Blocks == BytesUpTo(MaxBlockLen) \ {<<>>}

\* A block to send and a fresh reassembler
InitFrag ==
    /\ Constructed(NumLayers)
    /\ ut = [phase |-> "off"]
    /\ \E block \in Blocks :
          fr = [phase |-> "block", block |-> block, dgrams |-> <<>>,
                pending |-> {}, sent |-> 0,
                reassembler |-> FragmentedBlocks_new, res |-> <<>>,
                panic |-> FALSE]

\* The sender splits the block; the datagrams are in flight
Split ==
    /\ fr.phase = "block"
    /\ LET dgrams == split_to_datagrams(fr.block)
       IN  fr' = [fr EXCEPT !.phase = "flight",
                            !.dgrams = dgrams,
                            !.pending = {dgrams[n] : n \in 1..Len(dgrams)},
                            !.sent = Len(dgrams)]
    /\ UNCHANGED <<signer, verifier, s_file, r_file, net, clock, ret, gh, ut, id, tw, bc, rn>>

\* The receiver inserts the datagram that arrives next, whichever it is
Insert ==
    /\ fr.phase = "flight"
    /\ ~fr.panic
    /\ \E dgram \in fr.pending :
          LET done == FragmentedBlocks_insert(fr.reassembler, dgram)
          IN  fr' = [fr EXCEPT !.pending = @ \ {dgram},
                               !.reassembler = done.self,
                               !.res = done.res,
                               !.panic = done.panic]
    /\ UNCHANGED <<signer, verifier, s_file, r_file, net, clock, ret, gh, ut, id, tw, bc, rn>>

NextFrag == Split \/ Insert
SpecFrag == InitFrag /\ [][NextFrag]_vars

\* C10: whatever the order the datagrams of a block are inserted in, the
\* insert of the last one returns the block, the same bytes and the same
\* length, and no insert before it returns anything.
C10_ReassemblyExact ==
    fr.phase = "flight" =>
        /\ ~fr.panic
        /\ fr.res = IF fr.pending = {} THEN <<fr.block>> ELSE <<>>

\* A block of several datagrams has been inserted to the last one.
C10_Witness ==
    /\ fr.phase = "flight"
    /\ fr.sent > 1
    /\ fr.pending = {}
    /\ fr.res # <<>>

\* C11: a block of len bytes is split into ceil(len / payload_size)
\* datagrams; the i-th carries the hash of the whole block, the index i and
\* the count, followed by the bytes [i * payload_size, min((i + 1) *
\* payload_size, len)) of the block, so that the payloads put together in
\* index order are the block.
C11_SplitExact ==
    fr.phase = "flight" =>
        LET payload_size == DATAGRAM_SIZE - 16
            len == Len(fr.block)
            count == CHOOSE n \in 0..len :
                        n * payload_size >= len /\ (n - 1) * payload_size < len
        IN  /\ Len(fr.dgrams) = count
            /\ \A n \in 1..Len(fr.dgrams) :
                   /\ SubSeq(fr.dgrams[n], 1, 8) = to_le_bytes(xxh3_64(fr.block), 8)
                   /\ from_le_bytes(SubSeq(fr.dgrams[n], 9, 12)) = n - 1
                   /\ from_le_bytes(SubSeq(fr.dgrams[n], 13, 16)) = count
                   /\ SubSeq(fr.dgrams[n], 17, Len(fr.dgrams[n]))
                        = SubSeq(fr.block, ((n - 1) * payload_size) + 1,
                                 Min(n * payload_size, len))
            /\ Concat([n \in 1..Len(fr.dgrams) |->
                         SubSeq(fr.dgrams[n], 17, Len(fr.dgrams[n]))]) = fr.block

\* A block was split into several datagrams, the last one shorter than the rest.
C11_Witness ==
    /\ fr.phase = "flight"
    /\ Len(fr.dgrams) >= 3
    /\ Len(fr.dgrams[Len(fr.dgrams)]) < DATAGRAM_SIZE

\* ------------------------------------------------------------------------
\* Reassembly of a stream that loses datagrams
\* ------------------------------------------------------------------------
\* The blocks of the stream: of the longest length, one per first byte
LossBlocks == {[i \in 1..MaxBlockLen |-> (i + b) % (MaxByte + 1)] : b \in 0..MaxByte}

\* An empty reassembler in front of a stream; born is the time each assembly
\* record was created at
InitLoss ==
    /\ Constructed(NumLayers)
    /\ ut = [phase |-> "off"]
    /\ fr = [phase |-> "stream",
             reassembler |-> FragmentedBlocks_new,
             born |-> [hash \in {} |-> 0],
             res |-> <<>>, panic |-> FALSE]

\* The receiver after NetReceiver::receive took the datagram and inserted it
Received(self, dgram, now) ==
    LET after(done) ==
            [self EXCEPT !.reassembler = done.self,
                         !.born = [h \in DOMAIN done.self.blocks |->
                                     IF h \in DOMAIN self.born THEN self.born[h]
                                     ELSE now],
                         !.res = done.res,
                         !.panic = done.panic]
    IN  after(FragmentedBlocks_insert(self.reassembler, dgram))

\* The datagram that arrives next is any datagram of any block of the stream,
\* the others being late or lost
ReceiveLossy ==
    /\ fr.phase = "stream"
    /\ ~fr.panic
    /\ \E block \in LossBlocks :
          \E n \in DOMAIN split_to_datagrams(block) :
             fr' = Received(fr, split_to_datagrams(block)[n], clock)
    /\ UNCHANGED <<signer, verifier, s_file, r_file, net, clock, ret, gh, ut, id, tw, bc, rn>>

\* Time passes at the receiver
LossTick ==
    /\ fr.phase = "stream"
    /\ clock <= MaxDeadline
    /\ clock' = clock + 1
    /\ UNCHANGED <<signer, verifier, s_file, r_file, net, ret, gh, ut, fr, id, tw, bc, rn>>

\* Datagrams that cannot be decoded or placed: one cut inside its header, one
\* whose index is its count, and ones whose payload is a byte too long
Undecodable ==
    UNION {LET dgrams == split_to_datagrams(block)
               count == to_le_bytes(Len(dgrams), 4)
           IN  {SubSeq(dgrams[1], 1, 15),
                SubSeq(dgrams[1], 1, 8) \o count \o count
                    \o SubSeq(dgrams[1], 17, Len(dgrams[1]))}
               \cup {SubSeq(dgrams[n], 1, DATAGRAM_SIZE) \o <<MaxByte>> :
                        n \in {m \in DOMAIN dgrams : Len(dgrams[m]) = DATAGRAM_SIZE}}
           : block \in LossBlocks}

\* NetReceiver::receive takes a datagram that cannot be decoded or placed:
\* the reads of parse_datagram fail on less than the 16 bytes of a header,
\* and what parses is inserted
ReceiveUndecodable ==
    /\ fr.phase = "stream"
    /\ ~fr.panic
    /\ \E dgram \in Undecodable :
          fr' = IF Len(dgram) < 16
                THEN [fr EXCEPT !.res = <<>>, !.panic = TRUE]
                ELSE Received(fr, dgram, clock)
    /\ UNCHANGED <<signer, verifier, s_file, r_file, net, clock, ret, gh, ut, id, tw, bc, rn>>

NextLoss == ReceiveLossy \/ LossTick \/ ReceiveUndecodable
SpecLoss == InitLoss /\ [][NextLoss]_vars

\* The stream does not end, so datagrams arrive again and again (the receive
\* is enabled in every state), and time passes
SpecLossLive ==
    /\ SpecLoss
    /\ []<><<ReceiveLossy>>_vars
    /\ WF_vars(LossTick)

\* C18: whatever the deadline, an assembly record older than the deadline is
\* eventually gone from the reassembler, because its block completed or
\* because the record was discarded.
C18_StaleRecordDiscarded ==
    \A block \in LossBlocks : \A deadline \in 1..MaxDeadline :
        LET hash == xxh3_64(block)
        IN  (/\ fr.phase = "stream"
             /\ hash \in DOMAIN fr.reassembler.blocks
             /\ clock - fr.born[hash] > deadline)
            ~> (hash \notin DOMAIN fr.reassembler.blocks)

\* C24: the receive of a datagram that cannot be decoded or placed does not
\* abort and leaves the assembly table as it was.
C24_UndecodableDropped ==
    [][ReceiveUndecodable =>
          (~fr'.panic /\ fr'.reassembler = fr.reassembler)]_vars

\* C39: when a datagram of a block of the stream is inserted, in whatever
\* order the datagrams of the blocks arrive and however often, the records of
\* all other hashes stay as they are; a record that is created misses every
\* index of its block but the one inserted; a record that stays loses at most
\* one missing index and keeps one; a block is returned exactly when the
\* record of its hash missed one index before the insert, and that record is
\* gone after it; and no record goes without a block being returned.
C39_ReturnsOnLastMissing ==
    [][ReceiveLossy =>
          LET before == fr.reassembler.blocks
              after == fr'.reassembler.blocks
              changed == {h \in DOMAIN before \cup DOMAIN after :
                             \/ h \notin DOMAIN before
                             \/ h \notin DOMAIN after
                             \/ before[h] # after[h]}
              slots(record) == Len(record.data) \div record.frag_size
          IN  /\ ~fr'.panic
              /\ Cardinality(changed) <= 1
              /\ \A h \in DOMAIN after \ DOMAIN before :
                    Cardinality(after[h].missing_indices) = slots(after[h]) - 1
              /\ \A h \in DOMAIN after \cap DOMAIN before :
                    /\ after[h].missing_indices \subseteq before[h].missing_indices
                    /\ Cardinality(before[h].missing_indices
                                     \ after[h].missing_indices) <= 1
              /\ \A h \in DOMAIN after : after[h].missing_indices # {}
              /\ fr'.res # <<>> <=>
                    \E h \in DOMAIN before \ DOMAIN after :
                       Cardinality(before[h].missing_indices) = 1
              /\ fr'.res = <<>> => DOMAIN before \subseteq DOMAIN after]_vars

\* A block has been returned while the record of another block misses some of
\* its datagrams and holds others.
C39_Witness ==
    /\ fr.phase = "stream"
    /\ ~fr.panic
    /\ fr.res # <<>>
    /\ \E h \in DOMAIN fr.reassembler.blocks :
          LET record == fr.reassembler.blocks[h]
          IN  /\ record.missing_indices # {}
              /\ Cardinality(record.missing_indices)
                    < (Len(record.data) \div record.frag_size) - 1

\* ------------------------------------------------------------------------
\* Two signers built with the same seed
\* ------------------------------------------------------------------------
\* BlockSignerTrait::new: the state of the identity file when it loads,
\* otherwise a fresh signer seeded with params.seed
BlockSignerTrait_new(file, nlayers) ==
    LET built(loaded) ==
            IF loaded.panic THEN [panic |-> TRUE, loaded |-> FALSE]
            ELSE IF loaded.some
                 THEN [panic |-> FALSE, loaded |-> TRUE, self |-> loaded.self]
                 ELSE [panic |-> FALSE, loaded |-> FALSE,
                       self |-> BlockSigner_new(nlayers)]
    IN  built(load_state(file))

\* The uniform samples a signer can draw at stream position pos: the one the
\* stream gave before at that position, or any when it is read the first time
Draw(self, tape, pos) ==
    IF pos \in DOMAIN tape THEN {tape[pos]} ELSE Samples(self)

\* Samples of two signers seeded differently: any pair
TwinDraws_two_seeds(first, second, tape) ==
    {<<u1, u2>> : u1 \in Samples(first), u2 \in Samples(second)}

\* Samples of two signers reading one stream: equal at equal positions
TwinDraws(first, second, tape) ==
    {d \in Draw(first, tape, first.rng) \X Draw(second, tape, second.rng) :
        first.rng = second.rng => d[1] = d[2]}

\* The stream read so far, from the position of the signer that is behind
TapeAfter(tape, self, u, from) ==
    LET read == IF self.layers.first_sign THEN tape ELSE (self.rng :> u) @@ tape
    IN  [pos \in {q \in DOMAIN read : q >= from} |-> read[pos]]

\* What sign returns: next_key, the signature, store_state, the block
BlockSigner_sign(self, data, u, now) ==
    LET signed(nk) ==
            [self |-> nk.self,
             block |-> [data |-> data,
                        signature |-> HorstSign(data \o serialize_pub_keys(nk.pks),
                                                nk.secret),
                        pub_keys |-> nk.pks],
             public |-> nk.public,
             uses |-> nk.uses]
    IN  signed(next_key(self, u, now))

\* An earlier run of the sender with the same seed, nothing signed yet
InitTwin ==
    /\ signer = BlockSigner_new(NumLayers)
    /\ verifier = BlockVerifier_new
    /\ s_file = NoFile
    /\ r_file = NoFile
    /\ net = <<>>
    /\ clock = 0
    /\ ret = NoRet
    /\ gh = [nsigns |-> 0, panic |-> FALSE, boot |-> FALSE, clean |-> FALSE,
             lane |-> 0 - 1, quiet |-> TRUE]
    /\ ut = [phase |-> "off"]
    /\ fr = [phase |-> "off"]
    /\ id = [phase |-> "off"]
    /\ bc = [phase |-> "off"]
    /\ rn = [phase |-> "off"]
    /\ tw = [phase |-> "earlier", tape |-> [pos \in {} |-> 0]]

\* The earlier run signs a block and leaves its state in the identity file
SignEarlier ==
    /\ tw.phase = "earlier"
    /\ gh.nsigns < MaxEarlier
    /\ \E data \in Payloads, u \in Samples(signer) :
          LET done == BlockSigner_sign(signer, data, u, clock)
          IN  /\ signer' = done.self
              /\ s_file' = store_state(done.self).file
              /\ tw' = [tw EXCEPT !.tape = TapeAfter(@, signer, u, 0)]
    /\ gh' = [gh EXCEPT !.nsigns = @ + 1]
    /\ UNCHANGED <<verifier, r_file, net, clock, ret, ut, fr, id, bc, rn>>

\* Two signers are built with the seed and the layers of the earlier run: the
\* first in a directory of its own, the second where the earlier run ran
ConstructTwins ==
    /\ tw.phase = "earlier"
    /\ LET first == BlockSignerTrait_new(NoFile, NumLayers)
           second == BlockSignerTrait_new(s_file, NumLayers)
       IN  tw' = [phase |-> "twin", tape |-> tw.tape,
                  first |-> first.self, second |-> second.self,
                  first_file |-> NoFile,
                  loaded |-> second.loaded, calls |-> 0, same |-> TRUE]
    /\ UNCHANGED <<signer, verifier, s_file, r_file, net, clock, ret, gh, ut, fr, id, bc, rn>>

\* Both signers sign the same data, each at the time its own process runs
SignTwins ==
    /\ tw.phase = "twin"
    /\ tw.calls < (IF tw.loaded THEN MaxLoaded ELSE MaxTwin)
    /\ \E data \in Payloads, d \in TwinDraws(tw.first, tw.second, tw.tape) :
          LET first == BlockSigner_sign(tw.first, data, d[1], clock)
              second == BlockSigner_sign(tw.second, data, d[2], clock + 1)
              from == Min(first.self.rng, second.self.rng)
          IN  /\ tw' = [tw EXCEPT
                          !.first = first.self,
                          !.second = second.self,
                          !.first_file = store_state(first.self).file,
                          !.tape = TapeAfter(TapeAfter(@, tw.first, d[1], 0),
                                             tw.second, d[2], from),
                          !.calls = @ + 1,
                          !.same = @ /\ first.block = second.block]
              /\ s_file' = store_state(second.self).file
    /\ UNCHANGED <<signer, verifier, r_file, net, clock, ret, gh, ut, fr, id, bc, rn>>

NextTwin == SignEarlier \/ ConstructTwins \/ SignTwins
SpecTwin == InitTwin /\ [][NextTwin]_vars

InitIdentity ==
    /\ signer = BlockSigner_new(NumLayers)
    /\ verifier = BlockVerifier_new
    /\ s_file = NoFile
    /\ r_file = NoFile
    /\ net = <<>>
    /\ clock = 1
    /\ ret = NoRet
    /\ gh = [nsigns |-> 0, panic |-> FALSE, boot |-> FALSE, clean |-> FALSE,
             lane |-> 0 - 1, quiet |-> TRUE]
    /\ ut = [phase |-> "off"]
    /\ fr = [phase |-> "off"]
    /\ tw = [phase |-> "off"]
    /\ bc = [phase |-> "off"]
    /\ rn = [phase |-> "off"]
    /\ id = [phase |-> "on", up |-> TRUE, ref |-> BlockSigner_new(NumLayers),
             same |-> TRUE, stops |-> 0, crashes |-> 0, reloads |-> 0,
             since |-> 0, cut |-> 0 - 2, before |-> NoFile, after |-> NoFile,
             by |-> <<>>, uses |-> 0, released |-> [pk \in {} |-> 0]]

\* One more signature released under the public key pk
ReleasedOnceMore(released, pk) ==
    (pk :> (IF pk \in DOMAIN released THEN released[pk] + 1 ELSE 1)) @@ released

\* sign of the running sender, returned to its caller; the signer that is
\* never stopped signs the same data
SignRestarted ==
    /\ id.phase = "on"
    /\ id.up
    /\ ~gh.panic
    /\ \E data \in Payloads, u \in Samples(signer) :
          LET sign_layer == NextLayer(signer, u)
              lane == LaneAfter(gh.lane, signer.layers.first_sign, sign_layer)
              returned(done, stored, ref) ==
                  /\ signer' = done.self
                  /\ s_file' = stored.file
                  /\ gh' = [gh EXCEPT !.nsigns = @ + 1, !.lane = lane,
                                      !.panic = stored.panic]
                  /\ id' = [id EXCEPT
                              !.by = done.public,
                              !.uses = done.uses,
                              !.ref = IF id.crashes = 0 THEN ref.self ELSE @,
                              !.same = IF id.crashes = 0
                                       THEN @ /\ ref.block = done.block
                                              /\ ref.self.layers = done.self.layers
                                       ELSE @,
                              !.since = 1,
                              !.released = IF stored.panic THEN @
                                           ELSE ReleasedOnceMore(@, done.public)]
              signed(done) ==
                  returned(done, store_state(done.self),
                           BlockSigner_sign(id.ref, data, u, clock))
          IN  /\ \/ gh.nsigns < MaxIdFree
                 \/ gh.nsigns < MaxIdSigns /\ lane # 0 - 2
              /\ signed(BlockSigner_sign(signer, data, u, clock))
    /\ UNCHANGED <<verifier, r_file, net, clock, ret, ut, fr, tw, bc, rn>>

\* The process stops inside sign: before store_state opens the file (cut =
\* -1) or after the first cut of its eight writes; nothing is returned.
\* Past the first MaxIdFree calls only the first and the last of these
\* points are explored. The signer that is never stopped is followed no
\* further.
CrashInSign ==
    /\ id.phase = "on"
    /\ id.up
    /\ ~gh.panic
    /\ id.crashes < MaxCrashes
    /\ gh.nsigns < MaxIdSigns
    /\ \E u \in Samples(signer),
          cut \in IF gh.nsigns < MaxIdFree THEN (0 - 1)..8 ELSE {0 - 1, 8} :
          LET cut_short(done) ==
                  /\ s_file' = IF cut = 0 - 1 THEN s_file
                               ELSE FileAfter(done.self, cut)
                  /\ id' = [id EXCEPT !.up = FALSE, !.crashes = @ + 1,
                                      !.ref = BlockSigner_new(NumLayers),
                                      !.cut = cut,
                                      !.before = s_file,
                                      !.after = FileAfter(done.self, 8)]
          IN  cut_short(next_key(signer, u, clock))
    /\ UNCHANGED <<signer, verifier, r_file, net, clock, ret, gh, ut, fr, tw, bc, rn>>

\* The process is stopped between two sign calls
Stop ==
    /\ id.phase = "on"
    /\ id.up
    /\ ~gh.panic
    /\ id.stops < MaxStops
    /\ id' = [id EXCEPT !.up = FALSE, !.stops = @ + 1]
    /\ UNCHANGED <<signer, verifier, s_file, r_file, net, clock, ret, gh, ut, fr, tw, bc, rn>>

\* The sender is started again with the same parameters
Restart ==
    /\ id.phase = "on"
    /\ ~id.up
    /\ ~gh.panic
    /\ LET started(built) ==
               IF built.panic
               THEN /\ gh' = [gh EXCEPT !.panic = TRUE]
                    /\ UNCHANGED <<signer, id>>
               ELSE /\ signer' = built.self
                    /\ id' = [id EXCEPT !.up = TRUE, !.reloads = @ + 1, !.since = 0,
                                        !.cut = 0 - 2, !.before = NoFile,
                                        !.after = NoFile]
                    /\ UNCHANGED gh
       IN  started(BlockSignerTrait_new(s_file, NumLayers))
    /\ UNCHANGED <<verifier, s_file, r_file, net, clock, ret, ut, fr, tw, bc, rn>>

NextIdentity == SignRestarted \/ CrashInSign \/ Stop \/ Restart
SpecIdentity == InitIdentity /\ [][NextIdentity]_vars

\* C13: the state load_state reads from the file store_state wrote has the
\* rng, the key layers, the pk cache and the distribution of the signer in
\* memory; and a signer that was stopped and restarted between its sign
\* calls emits the blocks, and is left with the key layers, of a signer that
\* made the same calls without being stopped.
C13_ReloadEquivalent ==
    id.phase = "on" =>
        /\ (id.up /\ s_file.exists) =>
              LET loaded == load_state(s_file)
              IN  /\ loaded.some
                  /\ loaded.self.rng = signer.rng
                  /\ loaded.self.layers = signer.layers
                  /\ loaded.self.pks = signer.pks
                  /\ loaded.self.distr = signer.distr
        /\ id.crashes = 0 =>
              /\ ~gh.panic
              /\ id.same
              /\ signer.layers = id.ref.layers

\* A sender that signed, was stopped and restarted, and has signed again
\* until a key died and was replaced.
C13_Witness ==
    /\ id.phase = "on"
    /\ id.crashes = 0
    /\ id.reloads > 0
    /\ id.since > 0
    /\ id.uses = LIFETIME
    /\ \E kc \in KeyContsOf(signer) :
          kc.key.public \notin InitialPublicKeys /\ kc.last_cerified = 0
    /\ \E kc \in KeyContsOf(signer) : kc.last_cerified > 0

\* C19: when the process stops inside the persistence step of a sign, the
\* identity file is the complete file of the state before that sign or the
\* complete file of the state after it.
C19_StoreAtomic ==
    (id.phase = "on" /\ ~id.up /\ id.cut # 0 - 2) =>
        (s_file = id.before \/ s_file = id.after)

\* C21: a sender started over an identity file that a stopped sign left
\* truncated does not abort: while the sender is down or being started, no
\* panic has happened.
C21_TruncatedFileStartsFresh ==
    (id.phase = "on" /\ ~id.up /\ id.crashes > 0) => ~gh.panic

\* C29: the first sign of a signer that was created with no identity file
\* draws no sample and signs with the front key of layer 0; every other sign,
\* the first one after a reload included, draws one sample and signs with
\* the front key of the layer the sampler gives for it.
C29_FirstSignTopLayerThenSampled ==
    [][(id.phase = "on" /\ gh'.nsigns > gh.nsigns /\ ~gh'.panic) =>
          IF id.since = 0 /\ ~s_file.exists
          THEN /\ id'.by = signer.layers.data[1][1].key.public
               /\ signer'.rng \in {signer.rng, RngAfterKey(signer.rng)}
          ELSE /\ \E u \in 0..(RngGranularity - 1) :
                     id'.by = signer.layers.data[
                                 DiscreteDistribution_sample(signer.distr, u) + 1
                              ][1].key.public
               /\ signer'.rng \in {signer.rng + 1, RngAfterKey(signer.rng + 1)}]_vars

\* A sender that signed, was stopped and started again from its identity
\* file, and has since signed on layer 1 only.
C29_Witness ==
    /\ id.phase = "on"
    /\ id.reloads > 0
    /\ id.since > 0
    /\ gh.lane = 1
    /\ id.by = signer.layers.data[2][1].key.public

Addrs == 1..MaxSubs

\* One block of every length
CastBlocks == {[i \in 1..n |-> i % (MaxByte + 1)] : n \in 1..MaxBlockLen}

\* broadcast that takes no subscriber for dead
IsDead_never(valid_until, now) == FALSE

\* The test broadcast makes on a subscriber: *valid_until < now
IsDead(valid_until, now) == valid_until < now

NoCast == [block |-> <<>>,
           sent |-> [a \in {} |-> <<>>], dead_subs |-> {}]

\* A sender with an empty subscriber table
InitCast ==
    /\ signer = BlockSigner_new(NumLayers)
    /\ verifier = BlockVerifier_new
    /\ s_file = NoFile
    /\ r_file = NoFile
    /\ net = <<>>
    /\ clock = 0
    /\ ret = NoRet
    /\ gh = [nsigns |-> 0, panic |-> FALSE, boot |-> FALSE, clean |-> FALSE,
             lane |-> 0 - 1, quiet |-> TRUE]
    /\ ut = [phase |-> "off"]
    /\ fr = [phase |-> "off"]
    /\ id = [phase |-> "off"]
    /\ tw = [phase |-> "off"]
    /\ bc = [phase |-> "idle", subscribers |-> [a \in {} |-> 0], quit |-> {},
             last |-> NoCast]
    /\ rn = [phase |-> "off"]

\* registrator_task takes a heartbeat: Subscribers::insert
Heartbeat ==
    /\ bc.phase \in {"idle", "sent"}
    /\ clock < MaxCastClock
    /\ \E a \in Addrs \ bc.quit :
          bc' = [bc EXCEPT !.subscribers =
                    (a :> (clock + SUBSCRIBER_LIFETIME))
                    @@ [b \in DOMAIN @ \ {a} |-> @[b]]]
    /\ UNCHANGED <<signer, verifier, s_file, r_file, net, clock, ret, gh, ut, fr, id, tw, rn>>

\* A receiver sends no heartbeat any more
Quit ==
    /\ bc.phase \in {"idle", "sent"}
    /\ \E a \in Addrs \ bc.quit : bc' = [bc EXCEPT !.quit = @ \cup {a}]
    /\ UNCHANGED <<signer, verifier, s_file, r_file, net, clock, ret, gh, ut, fr, id, tw, rn>>

\* broadcast, with the table locked: the datagrams go to the subscribers
\* found alive, the others are noted in dead_subs. The blocks broadcast are
\* the shortest and the longest.
BroadcastSend ==
    /\ bc.phase = "idle"
    /\ \E block \in {b \in CastBlocks : Len(b) \in {1, MaxBlockLen}} :
          LET datagrams == split_to_datagrams(block)
              subs == bc.subscribers
          IN  bc' = [bc EXCEPT
                       !.phase = "sent",
                       !.last = [block |-> block,
                                 sent |-> [a \in DOMAIN subs |->
                                             IF IsDead(subs[a], clock) THEN <<>>
                                             ELSE datagrams],
                                 dead_subs |-> {a \in DOMAIN subs :
                                                  IsDead(subs[a], clock)}]]
    /\ UNCHANGED <<signer, verifier, s_file, r_file, net, clock, ret, gh, ut, fr, id, tw, rn>>

\* broadcast, with the table unlocked again: the subscribers noted in
\* dead_subs are removed, and broadcast returns
BroadcastRemove ==
    /\ bc.phase = "sent"
    /\ bc' = [bc EXCEPT
                !.phase = "idle",
                !.subscribers = [a \in DOMAIN @ \ bc.last.dead_subs |-> @[a]],
                !.last = NoCast]
    /\ UNCHANGED <<signer, verifier, s_file, r_file, net, clock, ret, gh, ut, fr, id, tw, rn>>

\* Time passes at the sender
CastTick ==
    /\ bc.phase \in {"idle", "sent"}
    /\ clock < MaxCastClock + SUBSCRIBER_LIFETIME
    /\ clock' = clock + 1
    /\ UNCHANGED <<signer, verifier, s_file, r_file, net, ret, gh, ut, fr, id, tw, bc, rn>>

NextCast == Heartbeat \/ Quit \/ BroadcastSend \/ BroadcastRemove \/ CastTick
SpecCast == InitCast /\ [][NextCast]_vars

\* Time passes, the sender keeps broadcasting, and a broadcast that has sent
\* goes on to its end
SpecCastLive ==
    /\ SpecCast
    /\ WF_vars(CastTick)
    /\ WF_vars(BroadcastSend)
    /\ WF_vars(BroadcastRemove)

\* C17: a broadcast sends the datagrams of the block, all of them and in
\* index order, to every subscriber whose expiry has not passed and none to a
\* subscriber whose expiry has passed; the subscribers it found expired are
\* out of the table when it returns; and a subscriber that sends no more
\* heartbeats is eventually out of the table.
C17_BroadcastToLiveOnly ==
    /\ [][/\ (bc.phase = "idle" /\ bc'.phase = "sent") =>
                /\ \A a \in DOMAIN bc.subscribers :
                      bc'.last.sent[a] =
                         IF clock <= bc.subscribers[a]
                         THEN split_to_datagrams(bc'.last.block)
                         ELSE <<>>
                /\ bc'.last.dead_subs =
                      {a \in DOMAIN bc.subscribers : bc.subscribers[a] < clock}
          /\ (bc.phase = "sent" /\ bc'.phase = "idle") =>
                \A a \in bc.last.dead_subs : a \notin DOMAIN bc'.subscribers]_vars
    /\ \A a \in Addrs :
          (bc.phase # "off" /\ a \in bc.quit) ~> (a \notin DOMAIN bc.subscribers)

\* A broadcast of a block of several datagrams has found one subscriber alive
\* and another, which had quit, expired.
C17_Witness ==
    /\ bc.phase = "sent"
    /\ \E a \in DOMAIN bc.last.sent : Len(bc.last.sent[a]) >= 3
    /\ \E a \in bc.last.dead_subs : a \in bc.quit

\* C38: broadcast removes a subscriber only if the expiry the table holds for
\* it at the moment of the removal has passed.
C38_RemovedOnlyIfExpired ==
    [][(bc.phase = "sent" /\ bc'.phase = "idle") =>
          \A a \in DOMAIN bc.subscribers \ DOMAIN bc'.subscribers :
             bc.subscribers[a] < clock]_vars

\* ------------------------------------------------------------------------
\* The lock of the subscriber table
\* ------------------------------------------------------------------------
\* The table unlocked, nobody subscribed, no heartbeat waiting to be
\* registered. Time is not followed here: no subscriber expires, so
\* broadcast finds nobody dead and has nothing to remove after the unlock.
InitLock ==
    /\ signer = BlockSigner_new(NumLayers)
    /\ verifier = BlockVerifier_new
    /\ s_file = NoFile
    /\ r_file = NoFile
    /\ net = <<>>
    /\ clock = 0
    /\ ret = NoRet
    /\ gh = [nsigns |-> 0, panic |-> FALSE, boot |-> FALSE, clean |-> FALSE,
             lane |-> 0 - 1, quiet |-> TRUE]
    /\ ut = [phase |-> "off"]
    /\ fr = [phase |-> "off"]
    /\ id = [phase |-> "off"]
    /\ tw = [phase |-> "off"]
    /\ bc = [phase |-> "free", subscribers |-> [a \in {} |-> 0],
             waiting |-> 0, left |-> 0, sent |-> 0]
    /\ rn = [phase |-> "off"]

\* registrator_task has received the heartbeat of a receiver and calls
\* Subscribers::insert, which asks for the lock
HeartbeatArrives ==
    /\ bc.phase \in {"free", "held"}
    /\ bc.waiting = 0
    /\ \E a \in Addrs : bc' = [bc EXCEPT !.waiting = a]
    /\ UNCHANGED <<signer, verifier, s_file, r_file, net, clock, ret, gh, ut, fr, id, tw, rn>>

\* Subscribers::insert gets the lock, inserts and lets the lock go
InsertLocked ==
    /\ bc.phase = "free"
    /\ bc.waiting # 0
    /\ bc' = [bc EXCEPT !.subscribers =
                           (bc.waiting :> (clock + SUBSCRIBER_LIFETIME))
                           @@ [b \in DOMAIN @ \ {bc.waiting} |-> @[b]],
                        !.waiting = 0]
    /\ UNCHANGED <<signer, verifier, s_file, r_file, net, clock, ret, gh, ut, fr, id, tw, rn>>

\* broadcast takes the lock and splits the block; left counts the send_to
\* calls of its loops over the subscribers and the datagrams
BroadcastLock ==
    /\ bc.phase = "free"
    /\ \E block \in CastBlocks :
          bc' = [bc EXCEPT !.phase = "held",
                           !.left = Cardinality(DOMAIN bc.subscribers)
                                    * Len(split_to_datagrams(block)),
                           !.sent = 0]
    /\ UNCHANGED <<signer, verifier, s_file, r_file, net, clock, ret, gh, ut, fr, id, tw, rn>>

\* One send_to of the loops, inside the scope of the guard
BroadcastSendOne ==
    /\ bc.phase = "held"
    /\ bc.left > 0
    /\ bc' = [bc EXCEPT !.left = @ - 1, !.sent = @ + 1]
    /\ UNCHANGED <<signer, verifier, s_file, r_file, net, clock, ret, gh, ut, fr, id, tw, rn>>

\* The loops are over: the scope of the guard ends and broadcast returns
BroadcastUnlock ==
    /\ bc.phase = "held"
    /\ bc.left = 0
    /\ bc' = [bc EXCEPT !.phase = "free", !.sent = 0]
    /\ UNCHANGED <<signer, verifier, s_file, r_file, net, clock, ret, gh, ut, fr, id, tw, rn>>

NextLock ==
    \/ HeartbeatArrives
    \/ InsertLocked
    \/ BroadcastLock
    \/ BroadcastSendOne
    \/ BroadcastUnlock
SpecLock == InitLock /\ [][NextLock]_vars

\* C31: no insert of a heartbeat waits for the lock while broadcast, having
\* sent a datagram, has datagrams left to send.
C31_InsertNotBlockedBySends ==
    ~(/\ bc.phase = "held"
      /\ bc.waiting # 0
      /\ bc.sent > 0
      /\ bc.left > 0)

\* ------------------------------------------------------------------------
\* The running flag and the loops that poll it
\* ------------------------------------------------------------------------
\* The three loops at the top of their first iteration, the flag set, and no
\* datagram waiting on either socket: beats counts the heartbeats waiting at
\* the registrator, dgrams the datagrams waiting at the receiver
InitRun ==
    /\ signer = BlockSigner_new(NumLayers)
    /\ verifier = BlockVerifier_new
    /\ s_file = NoFile
    /\ r_file = NoFile
    /\ net = <<>>
    /\ clock = 0
    /\ ret = NoRet
    /\ gh = [nsigns |-> 0, panic |-> FALSE, boot |-> FALSE, clean |-> FALSE,
             lane |-> 0 - 1, quiet |-> TRUE]
    /\ ut = [phase |-> "off"]
    /\ fr = [phase |-> "off"]
    /\ id = [phase |-> "off"]
    /\ tw = [phase |-> "off"]
    /\ bc = [phase |-> "off"]
    /\ rn = [phase |-> "on", running |-> TRUE,
             registrator |-> "top", heartbeat |-> "top", receive |-> "top",
             beats |-> 0, dgrams |-> 0, arrived |-> 0]

\* The user quits: running.store(false)
StopRunning ==
    /\ rn.phase = "on"
    /\ rn.running
    /\ rn' = [rn EXCEPT !.running = FALSE]
    /\ UNCHANGED <<signer, verifier, s_file, r_file, net, clock, ret, gh, ut, fr, id, tw, bc>>

\* A heartbeat or a datagram of a block reaches its socket
Arrive ==
    /\ rn.phase = "on"
    /\ rn.arrived < MaxArrivals
    /\ \/ rn' = [rn EXCEPT !.beats = @ + 1, !.arrived = @ + 1]
       \/ rn' = [rn EXCEPT !.dgrams = @ + 1, !.arrived = @ + 1]
    /\ UNCHANGED <<signer, verifier, s_file, r_file, net, clock, ret, gh, ut, fr, id, tw, bc>>

\* registrator_task: the loop test, then recv_from, which returns when a
\* heartbeat has arrived
RegistratorStep ==
    /\ rn.phase = "on"
    /\ \/ /\ rn.registrator = "top"
          /\ rn' = [rn EXCEPT !.registrator = IF rn.running THEN "recv_from"
                                              ELSE "exited"]
       \/ /\ rn.registrator = "recv_from"
          /\ rn.beats > 0
          /\ rn' = [rn EXCEPT !.registrator = "top", !.beats = @ - 1]
    /\ UNCHANGED <<signer, verifier, s_file, r_file, net, clock, ret, gh, ut, fr, id, tw, bc>>

\* heartbeat_task: the loop test and the send, then the sleep, which returns
\* when its five seconds are over
HeartbeatStep ==
    /\ rn.phase = "on"
    /\ \/ /\ rn.heartbeat = "top"
          /\ rn' = [rn EXCEPT !.heartbeat = IF rn.running THEN "sleep"
                                            ELSE "exited"]
       \/ /\ rn.heartbeat = "sleep"
          /\ rn' = [rn EXCEPT !.heartbeat = "top"]
    /\ UNCHANGED <<signer, verifier, s_file, r_file, net, clock, ret, gh, ut, fr, id, tw, bc>>

\* The receive loop: the loop test of the caller, then NetReceiver::receive,
\* whose recv_from returns when a datagram has arrived and which returns to
\* the caller when the datagram completes a block
ReceiveStep ==
    /\ rn.phase = "on"
    /\ \/ /\ rn.receive = "top"
          /\ rn' = [rn EXCEPT !.receive = IF rn.running THEN "recv_from"
                                          ELSE "exited"]
       \/ /\ rn.receive = "recv_from"
          /\ rn.dgrams > 0
          /\ \E completes \in BOOLEAN :
                rn' = [rn EXCEPT !.receive = IF completes THEN "top"
                                             ELSE "recv_from",
                                 !.dgrams = @ - 1]
    /\ UNCHANGED <<signer, verifier, s_file, r_file, net, clock, ret, gh, ut, fr, id, tw, bc>>

NextRun == StopRunning \/ Arrive \/ RegistratorStep \/ HeartbeatStep \/ ReceiveStep

\* The runtime schedules every task that can take a step; nothing obliges
\* the network to deliver a datagram
SpecRun ==
    /\ InitRun
    /\ [][NextRun]_vars
    /\ WF_vars(RegistratorStep)
    /\ WF_vars(HeartbeatStep)
    /\ WF_vars(ReceiveStep)

====
